---- MODULE Spec2Model ----
(***************************************************************************)
(* Verification model of the Previa App evidence pipeline:                 *)
(*   - calculate_risk_score          (backend/app/config/risk_rules.py)    *)
(*   - sweep_watchlist_companies     (backend/app/data/sources/sweep_job.py)*)
(*   - run_ingestion                 (backend/app/data/sources/ingestion_job.py)*)
(*   - start_scheduler and the jobs  (backend/app/scheduler.py, main.py)   *)
(*   - the fetchers and classifiers  (backend/app/data/sources/)           *)
(* Each part has its own specification over the shared variables; the     *)
(* variables of the other parts stay at their idle values.                 *)
(***************************************************************************)
EXTENDS Integers, Sequences, FiniteSets, Bags, TLC

(***************************************************************************)
(* Bounds of the model                                                     *)
(***************************************************************************)
MaxCats == 2
MaxNotices == 2
MaxTime == 2
MaxSweeps == 2
MaxRuns == 2
MaxBatch == 2
MaxBatchIndex == 1
MaxSlots == 4
MaxItems == 2
MaxMembers == 2
MaxFiles == 2
MaxArticles == 2

(***************************************************************************)
(* Values shared by all parts                                              *)
(***************************************************************************)
\* Python None / SQL NULL of a string-valued field
Null == "NULL"

Range(s) == {s[i] : i \in 1..Len(s)}

\* the application processes sharing one database
Replicas == {"r1", "r2"}

(***************************************************************************)
(* risk_rules.py                                                           *)
(***************************************************************************)
\* class RiskLevel
RiskLevel == {"CRITICAL", "HIGH", "MEDIUM", "LOW", "CLEAR"}

\* class Art69BStatus (the enum's values)
Art69BStatus == {"presunto", "desvirtuado", "definitivo", "sentencia_favorable", "not_found"}

\* class Art69Category
Art69Category == {"credito_firme", "no_localizado", "credito_cancelado",
                  "sentencia_condenatoria", "csd_sin_efectos"}

\* class CertificateStatus
CertificateStatus == {"active", "expired", "revoked", "not_found"}

\* _SEVERITY_ORDER: higher index = higher severity
_SEVERITY_ORDER == <<"CLEAR", "LOW", "MEDIUM", "HIGH", "CRITICAL">>

\* _level_priority: the (0-based) index of the level in _SEVERITY_ORDER
_level_priority(level) ==
    IF level \in Range(_SEVERITY_ORDER)
    THEN (CHOOSE i \in 1..Len(_SEVERITY_ORDER) : _SEVERITY_ORDER[i] = level) - 1
    ELSE 0

\* variant of score_map: HIGH scored 75
score_map_High75(level) ==
    CASE level = "CLEAR" -> 0
      [] level = "LOW" -> 25
      [] level = "MEDIUM" -> 50
      [] level = "HIGH" -> 75
      [] level = "CRITICAL" -> 100
      [] OTHER -> 0
\* score_map of calculate_risk_score
score_map(level) ==
    CASE level = "CLEAR" -> 0
      [] level = "LOW" -> 25
      [] level = "MEDIUM" -> 50
      [] level = "HIGH" -> 80
      [] level = "CRITICAL" -> 100
      [] OTHER -> 0

\* the candidates appended for the Art. 69-B status (lines 74-80);
\* a status of None reads as the empty string and appends nothing
Candidates69B(art69b) ==
    IF art69b \in {"definitivo", "presunto"} THEN <<"HIGH">>
    ELSE IF art69b # Null /\ art69b # "not_found" THEN <<"LOW">>
    ELSE <<>>

\* the candidate appended for the 49-Bis flag (lines 82-84)
Candidates49Bis(found) == IF found THEN <<"HIGH">> ELSE <<>>

\* the candidates appended by the loop over art_69_categories (lines 86-96)
RECURSIVE Candidates69(_)
Candidates69(cats) ==
    IF cats = <<>> THEN <<>>
    ELSE LET cat_val == Head(cats)
             c == IF cat_val = "sentencia_condenatoria" THEN <<"CRITICAL">>
                  ELSE IF cat_val = "no_localizado" THEN <<"MEDIUM">>
                  ELSE IF cat_val \in {"credito_firme", "csd_sin_efectos"} THEN <<"LOW">>
                  ELSE IF cat_val = "credito_cancelado" THEN <<"LOW">>
                  ELSE <<>>
         IN c \o Candidates69(Tail(cats))

\* the candidate appended for the certificate status (lines 98-104)
CandidatesCert(cert) ==
    IF cert = "revoked" THEN <<"LOW">>
    ELSE IF cert = "expired" THEN <<"LOW">>
    ELSE <<>>

\* variant of MaxByPriority: the first candidate, whatever its priority
MaxByPriority_First(candidates) == candidates[1]

\* max(candidates, key=_level_priority): the first element of highest priority
MaxByPriority(candidates) ==
    LET best == CHOOSE i \in 1..Len(candidates) :
                   /\ \A j \in 1..Len(candidates) :
                          _level_priority(candidates[j]) <= _level_priority(candidates[i])
                   /\ \A j \in 1..(i-1) :
                          _level_priority(candidates[j]) < _level_priority(candidates[i])
    IN candidates[best]

\* calculate_risk_score(findings) -> <<risk_score, risk_level>>
calculate_risk_score(f) ==
    LET candidates == Candidates69B(f.art_69b_status)
                      \o Candidates49Bis(f.art_49_bis_found)
                      \o Candidates69(f.art_69_categories)
                      \o CandidatesCert(f.cert_status)
    IN IF candidates = <<>> THEN <<0, "CLEAR">>
       ELSE LET risk_level == MaxByPriority(candidates)
            IN <<score_map(risk_level), risk_level>>


(***************************************************************************)
(* State                                                                   *)
(***************************************************************************)
VARIABLES
    \* -- calculate_risk_score applied to one findings dict
    findings,               \* the findings dict passed to calculate_risk_score
    risk_result,            \* its return value, <<>> before the call
    \* -- tables (committed database state)
    public_notices,         \* table public_notices, a bag of rows
    watchlist_companies,    \* table watchlist_companies, row id -> row
    \* -- sweep_watchlist_companies (one session)
    sweep_pc,               \* "idle", "loop", "done" (committed) or "failed" (rolled back, raised)
    companies,              \* the (rfc, razon_social) pairs still to process
    session_companies,      \* the session's view of watchlist_companies (flushed, uncommitted)
    changes,                \* the local counter of transitions logged in this sweep
    sweep_now,              \* now = datetime.utcnow() of the sweep, as a sweep ordinal
    last_screen,            \* history: the pair screened last, its row_69b and the findings returned
    query_errors,           \* history: query errors raised in the current sweep
    sweeps_committed,       \* history: number of committed sweeps
    prev_committed,         \* history: watchlist_companies after the previous committed sweep
    \* -- run_ingestion (one session per run, runs one after another)
    sweep_metadata,         \* table sweep_metadata: its single row, or NoRow
    sat_dataset,            \* table sat_datasets: the row of dataset "lista_69b"
    ing_pc,                 \* position in run_ingestion, "committed" / "failed" after it
    ing_batch,              \* sat_batch_index of the run
    ing_now,                \* now = datetime.utcnow() of the run, as a run ordinal
    today,                  \* the day (daily cycle) the run belongs to
    run_day,                \* history: run ordinal -> day of that run
    tx_notices,             \* the session's view of public_notices (flushed, uncommitted)
    tx_metadata,            \* the session's view of sweep_metadata
    tx_dataset,             \* the session's view of the lista_69b row
    ing_pending,            \* the fetched notices not yet added to the session
    dof_notices,            \* the list DOFFetcher.run returned to this run
    sat_notices,            \* the list SATDatosAbiertosFetcher.run returned to this run
    ing_before,             \* history: the committed tables when the run started
    ing_lost,               \* history: the session's rows and pending list a rollback discarded, and where
    \* -- scheduler.py and the deferred startup task of main.py, per replica
    db_kind,                \* "sqlite" or "postgres" (settings.sqlalchemy_database_url)
    lock_holder,            \* the replica holding advisory lock ADVISORY_LOCK_ID, or Null
    scheduler_running,      \* replica -> scheduler.running
    in_flight,              \* the <<replica, batch>> whose run_ingestion has not returned
    slot,                   \* the cron slots elapsed (06:00, 06:30, 07:00, 07:30, 06:00, ...)
    last_fired,             \* replica -> the last slot whose job it fired, -1 at start
    startup,                \* replica -> state of _delayed_ingest_and_sweep
    sweeps_triggered,       \* history: calls of sweep_watchlist_companies by _run_sat_batch
    process,                \* replica -> "starting", "serving" or "stopped" (lifespan left)
    failed_today,           \* history: a run_ingestion of a batch before the last raised today
    \* -- DOFFetcher.run / SIDOFFetcher.run: one fetch run
    dof_pc,                 \* "idle", "loop" (the loop over to_fetch) or "returned"
    dof_fetcher,            \* the class whose run executes: "dof" or "sidof"
    dof_candidates,         \* history: to_fetch when the loop began
    to_fetch,               \* the candidate notices still to fetch
    notices_for_db,         \* the list the run returns
    dof_fetched,            \* history: the candidates whose detail fetch succeeded, with their entities
    dof_skipped,            \* history: the codigo of the candidates whose detail fetch failed
    sat_pc,                 \* position of a SATDatosAbiertosFetcher.run: idle, links, fallback, returned
    all_notices,            \* all_notices of the run
    files_processed,        \* files_processed of the run
    known_index,            \* the entry of KNOWN_SAT_FILES the fallback loop is at
    sat_last,               \* history: the last link or known file the run handled
    company_news,           \* the committed rows of the company_news table, a bag
    news_pc,                \* per replica, position of run_news_ingestion: idle, checked
    news_pending,           \* per replica, the rows added in the open session, a bag
    news_runs,              \* number of runs of run_news_ingestion begun
    news_prev,              \* history: news_items of the latest run begun
    news_rerun,             \* history: what a run with the news_items of the run before it added
    news_overlap            \* history: a run began while another had its session open

riskVars == <<findings, risk_result>>
tableVars == <<public_notices, watchlist_companies>>
sweepVars == <<sweep_pc, companies, session_companies, changes, sweep_now,
               last_screen, query_errors, sweeps_committed, prev_committed>>
ingestVars == <<sweep_metadata, sat_dataset, ing_pc, ing_batch, ing_now, today, run_day,
                tx_notices, tx_metadata, tx_dataset, ing_pending, dof_notices, sat_notices,
                ing_before, ing_lost>>
schedVars == <<db_kind, lock_holder, scheduler_running, in_flight, slot, last_fired,
               startup, sweeps_triggered, process, failed_today>>
dofVars == <<dof_pc, dof_fetcher, dof_candidates, to_fetch, notices_for_db, dof_fetched, dof_skipped>>
satVars == <<sat_pc, all_notices, files_processed, known_index, sat_last>>
newsVars == <<company_news, news_pc, news_pending, news_runs, news_prev, news_rerun, news_overlap>>
feedVars == <<dofVars, satVars, newsVars>>
coreVars == <<riskVars, tableVars, sweepVars, ingestVars, schedVars>>
vars == <<riskVars, tableVars, sweepVars, ingestVars, schedVars, feedVars>>

DofIdle ==
    /\ dof_pc = "idle"
    /\ dof_fetcher = "dof"
    /\ dof_candidates = <<>>
    /\ to_fetch = <<>>
    /\ notices_for_db = <<>>
    /\ dof_fetched = <<>>
    /\ dof_skipped = {}

\* download_file returned None
NoFile == [ext |-> Null]

SatIdle ==
    /\ sat_pc = "idle"
    /\ all_notices = <<>>
    /\ files_processed = 0
    /\ known_index = 1
    /\ sat_last = [link_text |-> <<>>, file |-> NoFile, class |-> <<Null, Null>>, notices |-> <<>>]

NewsIdle ==
    /\ company_news = EmptyBag
    /\ news_pc = [r \in Replicas |-> "idle"]
    /\ news_pending = [r \in Replicas |-> EmptyBag]
    /\ news_runs = 0
    /\ news_prev = <<>>
    /\ news_rerun = "none"
    /\ news_overlap = FALSE

FeedIdle == DofIdle /\ SatIdle /\ NewsIdle

(***************************************************************************)
(* SpecRisk: calculate_risk_score over every findings dict of the domain   *)
(***************************************************************************)
\* all sequences over S of length at most n
SeqsUpTo(S, n) == UNION {[1..k -> S] : k \in 0..n}

FindingsDomain ==
    [art_69b_status : Art69BStatus \cup {Null},
     art_49_bis_found : BOOLEAN,
     art_69_categories : SeqsUpTo(Art69Category, MaxCats),
     cert_status : CertificateStatus \cup {Null}]

NoFindingsDict ==
    [art_69b_status |-> Null, art_49_bis_found |-> FALSE,
     art_69_categories |-> <<>>, cert_status |-> Null]

RiskIdle == findings = NoFindingsDict /\ risk_result = <<>>

RiskInit == findings \in FindingsDomain /\ risk_result = <<>>

\* one call of calculate_risk_score(findings)
RiskCalculate ==
    /\ risk_result = <<>>
    /\ risk_result' = calculate_risk_score(findings)
    /\ UNCHANGED findings

(***************************************************************************)
(* Strings of the name columns: sequences of characters                    *)
(***************************************************************************)
\* SQL NULL of a name column (no name is a sequence of this shape)
NoName == <<"<null>">>

\* str.lower() / the case folding of ILIKE, per character
LowerChar(c) ==
    CASE c = "A" -> "a"
      [] c = "B" -> "b"
      [] c = "X" -> "x"
      [] OTHER -> c

LowerStr(s) == [i \in 1..Len(s) |-> LowerChar(s[i])]

\* str.strip(): drop leading and trailing blanks
RECURSIVE LStrip(_)
LStrip(s) == IF s # <<>> /\ Head(s) = " " THEN LStrip(Tail(s)) ELSE s

RECURSIVE RStrip(_)
RStrip(s) == IF s # <<>> /\ s[Len(s)] = " " THEN RStrip(SubSeq(s, 1, Len(s) - 1)) ELSE s

Strip(s) == RStrip(LStrip(s))

\* column ILIKE '%name%': case-insensitive containment; NULL never matches
ILikeContains(value, name) ==
    /\ value # NoName
    /\ \E i \in 1..(Len(value) - Len(name) + 1) :
           LowerStr(SubSeq(value, i, i + Len(name) - 1)) = LowerStr(name)

\* rfc.strip().upper() on the taxpayer ids of the model
UpperStripRfc(rfc) ==
    CASE rfc = "r1" -> "R1"
      [] rfc = " R1" -> "R1"
      [] OTHER -> rfc


(***************************************************************************)
(* sweep_job.py: _screen_rfc_against_notices                               *)
(***************************************************************************)
\* an enumeration of a finite set as a sequence (the order of an unordered query result)
RECURSIVE SetToSeq(_)
SetToSeq(S) == IF S = {} THEN <<>>
               ELSE LET x == CHOOSE y \in S : TRUE IN <<x>> \o SetToSeq(S \ {x})

\* _name_filter(article_type): the rows of the razon_social ILIKE fallback query,
\* none when the name is empty or blank (lines 64-75)
NameFilterRows(notices, razon_social, article_type) ==
    IF razon_social = <<>> \/ Strip(razon_social) = <<>> THEN {}
    ELSE {n \in notices : /\ ILikeContains(n.razon_social, Strip(razon_social))
                          /\ n.article_type = article_type}

\* variant of LatestRows: ascending order, the oldest rows
LatestRows_Oldest(rows) == {n \in rows : \A m \in rows : n.indexed_at <= m.indexed_at}

\* the rows an ORDER BY indexed_at DESC LIMIT 1 query can return: any row
\* whose indexed_at is the latest (the order among equal timestamps is not fixed)
LatestRows(rows) == {n \in rows : \A m \in rows : m.indexed_at <= n.indexed_at}

\* the rows with PublicNotice.rfc == rfc_upper and the article type
ExactRows(notices, rfc_upper, article_type) ==
    {n \in notices : n.rfc = rfc_upper /\ n.article_type = article_type}

\* the rows row_69b can be: the latest exact-id row, else the latest name row (lines 79-89)
Row69BCandidates(notices, rfc_upper, razon_social) ==
    IF ExactRows(notices, rfc_upper, "art_69b") # {}
    THEN LatestRows(ExactRows(notices, rfc_upper, "art_69b"))
    ELSE LatestRows(NameFilterRows(notices, razon_social, "art_69b"))

\* variant of Resolve69BStatus: a status that is not recognised resolves NOT_FOUND
Resolve69BStatus_NotFound(status) ==
    IF status = Null THEN "presunto"
    ELSE IF status \in Art69BStatus THEN status
    ELSE "not_found"
\* Art69BStatus(raw) if raw else PRESUNTO, PRESUNTO on ValueError (lines 90-95);
\* the statuses stored by the fetchers are already stripped and lower-cased
Resolve69BStatus(status) ==
    IF status = Null THEN "presunto"
    ELSE IF status \in Art69BStatus THEN status
    ELSE "presunto"

\* variant of Rows69: the name rows are added to the exact-id rows
Rows69_Both(notices, rfc_upper, razon_social) ==
    ExactRows(notices, rfc_upper, "art_69") \cup NameFilterRows(notices, razon_social, "art_69")
\* rows_69: every exact-id row, else every name row (lines 99-107)
Rows69(notices, rfc_upper, razon_social) ==
    IF ExactRows(notices, rfc_upper, "art_69") # {}
    THEN ExactRows(notices, rfc_upper, "art_69")
    ELSE NameFilterRows(notices, razon_social, "art_69")

\* screen_69 (agent/tools/sat_69_tool.py:86-129): the rows handed to
\* _notices_to_69_result, the exact-id rows when rfc_upper is not empty and
\* there are some, else the name rows when the stripped name is not empty
Screen69Rows(notices, rfc, razon_social) ==
    IF UpperStripRfc(rfc) # "" /\ ExactRows(notices, UpperStripRfc(rfc), "art_69") # {}
    THEN ExactRows(notices, UpperStripRfc(rfc), "art_69")
    ELSE NameFilterRows(notices, razon_social, "art_69")
\* cat_raw = (row.category or row.status or ""), Null standing for "" (line 109)
CatRaw(row) ==
    IF row.category # Null THEN row.category
    ELSE IF row.status # Null THEN row.status
    ELSE Null

\* art_69_cats: the distinct non-empty cat_raw of rows_69 (lines 108-111), as a set
Art69Cats(notices, rfc_upper, razon_social) ==
    {CatRaw(row) : row \in Rows69(notices, rfc_upper, razon_social)} \ {Null}

\* variant of _CAT_MAP: the sentencia_condenatoria key is missing
_CAT_MAP_NoSentencia == {"credito_firme", "no_localizado", "credito_cancelado"}

\* the keys of _CAT_MAP (lines 139-144)
_CAT_MAP == {"credito_firme", "no_localizado", "credito_cancelado", "sentencia_condenatoria"}

\* art_69_bis_found / art_49_bis_found: an exact-id row exists, else a name row (lines 114-135)
BisFound(notices, rfc_upper, razon_social, article_type) ==
    \/ ExactRows(notices, rfc_upper, article_type) # {}
    \/ NameFilterRows(notices, razon_social, article_type) # {}

\* variant of Status69B: PRESUNTO also when no row was selected
Status69B_AlwaysPresunto(row_69b) ==
    IF row_69b = {} THEN "presunto"
    ELSE Resolve69BStatus((CHOOSE n \in row_69b : TRUE).status)
\* art_69b_status for the row_69b selected, a set of at most one row (lines 78, 90-95)
Status69B(row_69b) ==
    IF row_69b = {} THEN "not_found"
    ELSE Resolve69BStatus((CHOOSE n \in row_69b : TRUE).status)

\* the values row_69b can take: no row, or one of the candidate rows
Row69BChoices(notices, rfc_upper, razon_social) ==
    IF Row69BCandidates(notices, rfc_upper, razon_social) = {} THEN {{}}
    ELSE {{n} : n \in Row69BCandidates(notices, rfc_upper, razon_social)}

\* the dict returned once row_69b is selected (lines 90-163)
ScreenFindings(notices, rfc_upper, razon_social, row_69b) ==
    LET art_69b_status == Status69B(row_69b)
        art_69_cats == Art69Cats(notices, rfc_upper, razon_social)
        art_69_enums == SetToSeq(art_69_cats \cap _CAT_MAP)
        risk_findings == [art_69b_status |-> art_69b_status,
                          art_49_bis_found |-> FALSE,        \* key not in the dict
                          art_69_categories |-> art_69_enums,
                          cert_status |-> Null]
        res == calculate_risk_score(risk_findings)
    IN [risk_score |-> res[1],
        risk_level |-> res[2],
        art_69b_status |-> IF art_69b_status # "not_found" THEN art_69b_status ELSE Null,
        art_69_categories |-> art_69_cats,                   \* {} stands for None
        art_69_bis_found |-> BisFound(notices, rfc_upper, razon_social, "art_69_bis"),
        art_49_bis_found |-> BisFound(notices, rfc_upper, razon_social, "art_49_bis")]

\* _screen_rfc_against_notices(db, rfc, razon_social): the dicts it can return
_screen_rfc_against_notices(notices, rfc, razon_social) ==
    {ScreenFindings(notices, UpperStripRfc(rfc), razon_social, row_69b) :
        row_69b \in Row69BChoices(notices, UpperStripRfc(rfc), razon_social)}

(***************************************************************************)
(* api/routes/rfc.py: lookup_rfc and its screening tools                   *)
(***************************************************************************)
\* the demo taxpayer ids of _MOCK_69B and their status (sat_69b_tool.py:18-59)
_MOCK_69B ==
    [r \in {"CAL080328S18", "LAS191217BD4"} |-> "definitivo"] @@
    [r \in {"ACA0604119X3", "BMS190313BU0"} |-> "presunto"]

\* the demo taxpayer ids of _MOCK_69 and their category types (sat_69_tool.py:25-60)
_MOCK_69 ==
    [r \in {"GFS1109204G1"} |-> {"no_localizado"}] @@
    [r \in {"BAD180409H32", "CAL080328S18"} |-> {"credito_firme"}]

\* screen_69b (sat_69b_tool.py:81-106): the statuses it can return, that of a
\* latest exact-id row resolved by _notice_to_69b_result, else the mock's, else NOT_FOUND
screen_69b(notices, rfc_upper) ==
    IF ExactRows(notices, rfc_upper, "art_69b") # {}
    THEN {Resolve69BStatus(n.status) : n \in LatestRows(ExactRows(notices, rfc_upper, "art_69b"))}
    ELSE IF rfc_upper \in DOMAIN _MOCK_69B THEN {_MOCK_69B[rfc_upper]}
    ELSE {"not_found"}

\* the category types of the dict screen_69(rfc_upper, db) returns
\* (sat_69_tool.py:71-129): _CATEGORY_MAP.get(cat_raw, cat_raw) of the rows, "" for none
screen_69_types(notices, rfc_upper) ==
    IF Screen69Rows(notices, rfc_upper, <<>>) # {}
    THEN {CatRaw(n) : n \in Screen69Rows(notices, rfc_upper, <<>>)}
    ELSE IF rfc_upper \in DOMAIN _MOCK_69 THEN _MOCK_69[rfc_upper]
    ELSE {}

\* lookup_rfc (rfc.py:70-123) for an id that passed the validation: the
\* (risk_score, risk_level) it can return; the category types that are not an
\* Art69Category are dropped (lines 96-103), the two flags are not in the dict
lookup_rfc(notices, rfc) ==
    {calculate_risk_score([art_69b_status |-> st,
                           art_49_bis_found |-> FALSE,
                           art_69_categories |->
                               SetToSeq(screen_69_types(notices, UpperStripRfc(rfc))
                                            \cap Art69Category),
                           cert_status |-> Null]) :
        st \in screen_69b(notices, UpperStripRfc(rfc))}

(***************************************************************************)
(* sweep_job.py: _update_companies                                         *)
(***************************************************************************)
\* the rows selected by WatchlistCompany.rfc == rfc (line 171)
RowsOfRfc(rows, rfc) == {i \in DOMAIN rows : rows[i].rfc = rfc}

\* the rows after the loop of lines 176-184 and the flush
UpdatedRows(rows, rfc, fnd, now) ==
    [i \in DOMAIN rows |->
        IF rows[i].rfc = rfc
        THEN [rows[i] EXCEPT !.risk_score = fnd.risk_score,
                             !.risk_level = fnd.risk_level,
                             !.art_69b_status = fnd.art_69b_status,
                             !.art_69_categories = fnd.art_69_categories,
                             !.art_69_bis_found = fnd.art_69_bis_found,
                             !.art_49_bis_found = fnd.art_49_bis_found,
                             !.last_screened_at = now]
        ELSE rows[i]]

\* variant of ChangedCount: every row written counts as changed
ChangedCount_Written(rows, rfc, fnd) == Cardinality(RowsOfRfc(rows, rfc))
\* changed: the rows whose old_level differs from findings["risk_level"] (lines 186-191)
ChangedCount(rows, rfc, fnd) ==
    Cardinality({i \in RowsOfRfc(rows, rfc) : rows[i].risk_level # fnd.risk_level})


(***************************************************************************)
(* SpecSweep: sweep_watchlist_companies over a fixed Evidence Store        *)
(***************************************************************************)
\* risk_score / last_screened_at of a row that was never screened (None)
NullScore == -1
NeverScreened == 0

\* the subsets of U with at most n elements
RECURSIVE SubsetsUpTo(_, _)
SubsetsUpTo(U, n) ==
    IF n = 0 THEN {{}}
    ELSE LET smaller == SubsetsUpTo(U, n - 1)
         IN smaller \cup {T \cup {x} : T \in smaller, x \in U}

\* the permutations of a finite set, as sequences
Perms(S) == {f \in [1..Cardinality(S) -> S] : \A i, j \in 1..Cardinality(S) : f[i] = f[j] => i = j}

\* the (taxpayer id, name) of the evidence rows: one carrying the tracked id,
\* one of another taxpayer whose name contains the tracked name "a"
OwnIdent == [rfc |-> "R1", razon_social |-> NoName]
NamesakeIdent == [rfc |-> "R2", razon_social |-> <<"X", "A">>]
NoticeIdents == {OwnIdent, NamesakeIdent}

\* (article_type, status, category) as the fetchers store them:
\* sat_datos_abiertos_fetcher.extract_notices_from_df sets category = status for art_69,
\* DOFFetcher.run stores the status of _classify_notice and no category
NoticePayloads69B ==
    {[article_type |-> "art_69b", status |-> st, category |-> Null, source |-> "sat_datos_abiertos"] :
        st \in {"definitivo", "desvirtuado", "sentencia favorable", Null}}

NoticePayloadsOther ==
    {[article_type |-> "art_69", status |-> c, category |-> c, source |-> "sat_datos_abiertos"] :
        c \in {"credito_firme", "no_localizado", "sentencia_condenatoria"}}
    \cup {[article_type |-> "art_69", status |-> "csd_sin_efectos", category |-> Null, source |-> "dof"],
          [article_type |-> "art_69_bis", status |-> Null, category |-> Null, source |-> "sat_datos_abiertos"],
          [article_type |-> "art_49_bis", status |-> Null, category |-> Null, source |-> "dof"]}

MkNotice(id, p, t) ==
    [source |-> p.source, rfc |-> id.rfc, razon_social |-> id.razon_social,
     article_type |-> p.article_type, status |-> p.status, category |-> p.category,
     indexed_at |-> t]

\* the rows the Evidence Store of SpecSweep is drawn from
NoticeUniverse ==
    {MkNotice(OwnIdent, p, t) : p \in NoticePayloads69B, t \in 1..MaxTime}
    \cup {MkNotice(OwnIdent, p, 1) : p \in NoticePayloadsOther}
    \cup {MkNotice(NamesakeIdent, p, MaxTime) :
             p \in {q \in NoticePayloads69B : q.status = "definitivo"}}
    \cup {MkNotice(NamesakeIdent, p, 1) :
             p \in {q \in NoticePayloadsOther :
                       q.status = "no_localizado" \/ q.article_type = "art_49_bis"}}

\* the (rfc, razon_social) of the tracked rows: one row, two rows with two
\* names under one taxpayer id, one row with the id in lower case and a blank name
TrackedSets ==
    {{[rfc |-> "R1", razon_social |-> <<"a">>]},
     {[rfc |-> "R1", razon_social |-> <<"a">>], [rfc |-> "R1", razon_social |-> <<"b">>]},
     {[rfc |-> "r1", razon_social |-> <<" ">>]}}

\* a WatchlistCompany row as created by the watchlist routes: no risk field set
NewCompany(pair) ==
    [rfc |-> pair.rfc, razon_social |-> pair.razon_social,
     risk_level |-> Null, risk_score |-> NullScore, art_69b_status |-> Null,
     art_69_categories |-> {}, art_69_bis_found |-> FALSE, art_49_bis_found |-> FALSE,
     last_screened_at |-> NeverScreened]

NoCompanies == <<>>
NoScreen == [rfc |-> Null, razon_social |-> NoName, row_69b |-> {}, findings |-> {}]

TablesIdle == public_notices = EmptyBag /\ watchlist_companies = NoCompanies

SweepIdle ==
    /\ sweep_pc = "idle"
    /\ companies = <<>>
    /\ session_companies = NoCompanies
    /\ changes = 0
    /\ sweep_now = 0
    /\ last_screen = NoScreen
    /\ query_errors = 0
    /\ sweeps_committed = 0
    /\ prev_committed = NoCompanies

SweepInit ==
    /\ \E S \in SubsetsUpTo(NoticeUniverse, MaxNotices) : public_notices = SetToBag(S)
    /\ \E W \in TrackedSets :
           watchlist_companies = [i \in 1..Cardinality(W) |-> NewCompany(SetToSeq(W)[i])]
    /\ sweep_pc = "idle"
    /\ companies = <<>>
    /\ session_companies = watchlist_companies
    /\ changes = 0
    /\ sweep_now = 0
    /\ last_screen = NoScreen
    /\ query_errors = 0
    /\ sweeps_committed = 0
    /\ prev_committed = watchlist_companies

\* select(rfc, razon_social).distinct() filtered by "if row.rfc" (lines 36-39)
DistinctPairs(rows) ==
    {[rfc |-> rows[i].rfc, razon_social |-> rows[i].razon_social] : i \in DOMAIN rows}
    \ {[rfc |-> rows[i].rfc, razon_social |-> rows[i].razon_social] :
           i \in {j \in DOMAIN rows : rows[j].rfc = ""}}

\* lines 34-43: open the session, read the distinct pairs (in the order the
\* database returns them), changes = 0, now = utcnow()
SweepBegin ==
    /\ sweep_pc \in {"idle", "done", "failed"}
    /\ sweep_now < MaxSweeps
    /\ sweep_now' = sweep_now + 1
    /\ companies' \in Perms(DistinctPairs(watchlist_companies))
    /\ session_companies' = watchlist_companies
    /\ changes' = 0
    /\ query_errors' = 0
    /\ last_screen' = NoScreen
    /\ sweep_pc' = "loop"
    /\ UNCHANGED <<sweeps_committed, prev_committed, tableVars>>

\* lines 45-48: one iteration of the loop, _screen_rfc_against_notices then _update_companies
SweepScreenAndUpdate ==
    /\ sweep_pc = "loop"
    /\ companies # <<>>
    /\ LET pair == Head(companies)
       IN \E row_69b \in Row69BChoices(BagToSet(public_notices), UpperStripRfc(pair.rfc),
                                       pair.razon_social) :
             LET fnd == ScreenFindings(BagToSet(public_notices), UpperStripRfc(pair.rfc),
                                       pair.razon_social, row_69b)
             IN /\ session_companies' = UpdatedRows(session_companies, pair.rfc, fnd, sweep_now)
                /\ changes' = changes + ChangedCount(session_companies, pair.rfc, fnd)
                /\ last_screen' = [rfc |-> pair.rfc, razon_social |-> pair.razon_social,
                                   row_69b |-> row_69b, findings |-> {fnd}]
    /\ companies' = Tail(companies)
    /\ UNCHANGED <<sweep_pc, sweep_now, query_errors, sweeps_committed, prev_committed, tableVars>>

\* a query of _screen_rfc_against_notices raises for the pair being processed:
\* the except of lines 52-55 rolls the session back and re-raises
SweepQueryError ==
    /\ sweep_pc = "loop"
    /\ companies # <<>>
    /\ query_errors' = query_errors + 1
    /\ session_companies' = watchlist_companies
    /\ sweep_pc' = "failed"
    /\ UNCHANGED <<companies, changes, sweep_now, last_screen, sweeps_committed,
                   prev_committed, tableVars>>

\* line 50: the loop is over, db.commit()
SweepCommit ==
    /\ sweep_pc = "loop"
    /\ companies = <<>>
    /\ watchlist_companies' = session_companies
    /\ prev_committed' = watchlist_companies
    /\ sweeps_committed' = sweeps_committed + 1
    /\ sweep_pc' = "done"
    /\ UNCHANGED <<companies, session_companies, changes, sweep_now, last_screen,
                   query_errors, public_notices>>

(***************************************************************************)
(* run_ingestion (ingestion_job.py): one batch of the daily phased run     *)
(***************************************************************************)
\* absent table row (scalar_one_or_none() returned None)
NoRow == [absent |-> TRUE]

\* the sources written by run_ingestion
DofSource == "dof"
SatSource == "sat_datos_abiertos"

\* n.get(key): None when the dict has no such key
Get(n, key) == IF key \in DOMAIN n THEN n[key] ELSE Null

\* the notice dict DOFFetcher.run appends for an entity of a notice
\* (dof_fetcher.py:298-311): it has no "category" key
DofFetched ==
    {[source |-> DofSource, source_url |-> "dof/1", rfc |-> "R1", razon_social |-> NoName,
      article_type |-> "art_69b", status |-> "definitivo"]}

\* the notice dicts extract_notices_from_df builds (sat_datos_abiertos_fetcher.py:331-345)
SatFetched ==
    {[source |-> SatSource, source_url |-> "sat/f1", rfc |-> "R1", razon_social |-> NoName,
      article_type |-> "art_69b", status |-> "definitivo", category |-> Null],
     [source |-> SatSource, source_url |-> "sat/f2", rfc |-> "R2", razon_social |-> NoName,
      article_type |-> "art_69", status |-> "no_localizado", category |-> "no_localizado"]}

\* the lists a fetcher can return with at most n dicts drawn from S (a dict may
\* repeat); the dicts come in one fixed order, the order of the documents
FetchedLists(S, n) ==
    LET ord == SetToSeq(S)
    IN UNION {{[i \in 1..k |-> ord[f[i]]] :
                  f \in {g \in [1..k -> 1..Len(ord)] :
                             \A i, j \in 1..k : i <= j => g[i] <= g[j]}} : k \in 0..n}

\* PublicNotice(source=n["source"], ..., indexed_at=now): lines 69-85 and 149-165
NewRow(n, now) ==
    [source |-> n.source, rfc |-> Get(n, "rfc"), razon_social |-> Get(n, "razon_social"),
     article_type |-> n.article_type, status |-> Get(n, "status"),
     category |-> Get(n, "category"), indexed_at |-> now]

\* db.add(row) followed by flush
AddRow(rows, r) == rows (+) SetToBag({r})

\* the rows of a table (a bag) with the given source
BagOfSource(rows, source) ==
    [r \in {x \in BagToSet(rows) : x.source = source} |-> rows[r]]

\* delete(PublicNotice).where(PublicNotice.source == source) without the delete
DeleteSource_None(rows, source) == rows
\* delete(PublicNotice).where(PublicNotice.source == source), lines 54 and 145
DeleteSource(rows, source) ==
    [r \in {x \in BagToSet(rows) : x.source # source} |-> rows[r]]

\* the rows a loop of db.add builds from a fetched list
RECURSIVE RowsOf(_, _)
RowsOf(list, now) ==
    IF list = <<>> THEN EmptyBag ELSE AddRow(RowsOf(Tail(list), now), NewRow(Head(list), now))

\* lines 63-65
batch_files(list) ==
    LET distinct == Cardinality({Get(list[i], "source_url") : i \in DOMAIN list})
    IN IF distinct = 0 /\ list # <<>> THEN 1 ELSE distinct

\* line 89
sat_69b_count(list) == Cardinality({i \in DOMAIN list : Get(list[i], "article_type") = "art_69b"})

\* _update_sat_dataset(db, "lista_69b", row_count), lines 169-177
_update_sat_dataset(row, now, row_count) ==
    IF row = NoRow THEN NoRow
    ELSE [last_updated |-> now,
          row_count |-> IF row_count > 0 THEN row_count ELSE row.row_count]

\* variant of _upsert_sweep_metadata: batch 0 adds to the totals like the later batches
_upsert_sweep_metadata_Adds(row, completed_at, files, rows, batch_index) ==
    IF row = NoRow
    THEN [last_completed_at |-> completed_at, total_files |-> files, total_rows |-> rows]
    ELSE [last_completed_at |-> completed_at, total_files |-> row.total_files + files,
          total_rows |-> row.total_rows + rows]
\* _upsert_sweep_metadata, lines 108-140
_upsert_sweep_metadata(row, completed_at, files, rows, batch_index) ==
    IF batch_index = 0 \/ row = NoRow
    THEN [last_completed_at |-> completed_at, total_files |-> files, total_rows |-> rows]
    ELSE [last_completed_at |-> completed_at, total_files |-> row.total_files + files,
          total_rows |-> row.total_rows + rows]

\* db.commit(): the session's writes become the committed table
Commit(committed, session) == session
\* a rollback that keeps the session's writes
Rollback_Keep(committed, session) == session
\* db.rollback() (line 103): the session's writes are discarded
Rollback(committed, session) == committed

\* the sentinel row of lista_69b seeded at startup (main.py:100-106)
SeededDataset == [last_updated |-> Null, row_count |-> 0]
Committed == [notices |-> public_notices, metadata |-> sweep_metadata, dataset |-> sat_dataset]
NothingLost == [notices |-> EmptyBag, pending |-> <<>>, at |-> Null]
\* the sources of the notices GacetaDiputadosFetcher.run (gaceta_fetcher.py:174)
\* and LeyesFederalesFetcher.run (leyes_federales_fetcher.py:223) build
GacetaSource == "gaceta_diputados"
LeyesSource == "leyes_federales"

\* the sources whose fetcher run_ingestion(sat_batch_index = k) calls (lines 47-62)
FetchedSources(k) == IF k = 0 THEN {DofSource, SatSource} ELSE {SatSource}
BatchIndices == 0..MaxBatchIndex
InProgress == {"started", "dof_insert", "fetch_sat", "sat_insert"}

IngestIdle ==
    /\ sweep_metadata = NoRow
    /\ sat_dataset = SeededDataset
    /\ ing_pc = "idle"
    /\ ing_batch = 0
    /\ ing_now = 0
    /\ today = 1
    /\ run_day = <<>>
    /\ tx_notices = EmptyBag
    /\ tx_metadata = NoRow
    /\ tx_dataset = SeededDataset
    /\ ing_pending = <<>>
    /\ dof_notices = <<>>
    /\ sat_notices = <<>>
    /\ ing_before = [notices |-> EmptyBag, metadata |-> NoRow, dataset |-> SeededDataset]
    /\ ing_lost = NothingLost

\* lines 43-45: a cron job (or a manual call) enters run_ingestion(sat_batch_index = k),
\* the same day as the previous run or the next; the session opens on the
\* committed tables and now = utcnow()
IngestBegin(k, day) ==
    /\ ing_pc \in {"idle", "committed", "failed"}
    /\ ing_now < MaxRuns
    /\ ing_now' = ing_now + 1
    /\ ing_batch' = k
    /\ today' = day
    /\ run_day' = Append(run_day, day)
    /\ tx_notices' = public_notices
    /\ tx_metadata' = sweep_metadata
    /\ tx_dataset' = sat_dataset
    /\ ing_pending' = <<>>
    /\ dof_notices' = <<>>
    /\ sat_notices' = <<>>
    /\ ing_before' = Committed
    /\ ing_lost' = NothingLost
    /\ ing_pc' = IF k = 0 THEN "started" ELSE "fetch_sat"
    /\ UNCHANGED <<public_notices, sweep_metadata, sat_dataset>>

\* lines 49-51 and 145-146: DOFFetcher.run returns its list (empty when it
\* swallowed a failure), _replace_source deletes the rows of source "dof"
IngestReplaceDelete(fetched) ==
    /\ ing_pc = "started"
    /\ dof_notices' = fetched
    /\ ing_pending' = fetched
    /\ tx_notices' = DeleteSource(tx_notices, DofSource)
    /\ ing_pc' = "dof_insert"
    /\ UNCHANGED <<public_notices, sweep_metadata, sat_dataset, ing_batch, ing_now, today,
                   run_day, tx_metadata, tx_dataset, sat_notices, ing_before, ing_lost>>

\* lines 148-165: one iteration of the insert loop of _replace_source
IngestReplaceInsert ==
    /\ ing_pc = "dof_insert"
    /\ ing_pending # <<>>
    /\ tx_notices' = AddRow(tx_notices, NewRow(Head(ing_pending), ing_now))
    /\ ing_pending' = Tail(ing_pending)
    /\ UNCHANGED <<public_notices, sweep_metadata, sat_dataset, ing_pc, ing_batch, ing_now,
                   today, run_day, tx_metadata, tx_dataset, dof_notices, sat_notices,
                   ing_before, ing_lost>>

\* lines 52-55: _update_sat_dataset(db, "lista_69b"), then the rows of source
\* "sat_datos_abiertos" are deleted
IngestClearSat ==
    /\ ing_pc = "dof_insert"
    /\ ing_pending = <<>>
    /\ tx_dataset' = _update_sat_dataset(tx_dataset, ing_now, 0)
    /\ tx_notices' = DeleteSource(tx_notices, SatSource)
    /\ ing_pc' = "fetch_sat"
    /\ UNCHANGED <<public_notices, sweep_metadata, sat_dataset, ing_batch, ing_now, today,
                   run_day, tx_metadata, ing_pending, dof_notices, sat_notices, ing_before,
                   ing_lost>>

\* lines 58-66: the call of SATDatosAbiertosFetcher.run returns a list of notice
\* dicts.  The call passes max_files, max_rows_per_file and start_file_offset;
\* this action is the outcome for a fetcher that accepts them.  With
\* run(cls, max_files) of sat_datos_abiertos_fetcher.py:352 the call raises
\* TypeError, which is IngestFail taken at this position.
IngestFetchSat(fetched) ==
    /\ ing_pc = "fetch_sat"
    /\ sat_notices' = fetched
    /\ ing_pending' = fetched
    /\ ing_pc' = "sat_insert"
    /\ UNCHANGED <<public_notices, sweep_metadata, sat_dataset, ing_batch, ing_now, today,
                   run_day, tx_notices, tx_metadata, tx_dataset, dof_notices, ing_before,
                   ing_lost>>

\* lines 68-85: one iteration of the insert loop of the SAT batch
IngestInsertSat ==
    /\ ing_pc = "sat_insert"
    /\ ing_pending # <<>>
    /\ tx_notices' = AddRow(tx_notices, NewRow(Head(ing_pending), ing_now))
    /\ ing_pending' = Tail(ing_pending)
    /\ UNCHANGED <<public_notices, sweep_metadata, sat_dataset, ing_pc, ing_batch, ing_now,
                   today, run_day, tx_metadata, tx_dataset, dof_notices, sat_notices,
                   ing_before, ing_lost>>

\* lines 86-95: flush, the row count of lista_69b on batch 0, the sweep
\* metadata, db.commit()
IngestCommit ==
    /\ ing_pc = "sat_insert"
    /\ ing_pending = <<>>
    /\ LET dataset == IF ing_batch = 0
                      THEN _update_sat_dataset(tx_dataset, ing_now, sat_69b_count(sat_notices))
                      ELSE tx_dataset
           metadata == _upsert_sweep_metadata(tx_metadata, ing_now, batch_files(sat_notices),
                                              Len(sat_notices), ing_batch)
       IN /\ tx_dataset' = dataset
          /\ tx_metadata' = metadata
          /\ public_notices' = Commit(public_notices, tx_notices)
          /\ sat_dataset' = Commit(sat_dataset, dataset)
          /\ sweep_metadata' = Commit(sweep_metadata, metadata)
    /\ ing_pc' = "committed"
    /\ UNCHANGED <<ing_batch, ing_now, today, run_day, tx_notices, ing_pending, dof_notices,
                   sat_notices, ing_before, ing_lost>>

\* lines 102-105: a statement of the try block raises (a fetcher, a flush, the
\* commit): db.rollback(), the exception is re-raised
IngestFail ==
    /\ ing_pc \in InProgress
    /\ ing_lost' = [notices |-> tx_notices, pending |-> ing_pending, at |-> ing_pc]
    /\ public_notices' = Rollback(public_notices, tx_notices)
    /\ sat_dataset' = Rollback(sat_dataset, tx_dataset)
    /\ sweep_metadata' = Rollback(sweep_metadata, tx_metadata)
    /\ tx_notices' = public_notices'
    /\ tx_dataset' = sat_dataset'
    /\ tx_metadata' = sweep_metadata'
    /\ ing_pc' = "failed"
    /\ UNCHANGED <<ing_batch, ing_now, today, run_day, ing_pending, dof_notices, sat_notices,
                   ing_before>>

otherThanIngest == <<riskVars, watchlist_companies, sweepVars, schedVars, feedVars>>

IngestNext ==
    \/ \E k \in BatchIndices, day \in {today, today + 1} :
           IngestBegin(k, day) /\ UNCHANGED otherThanIngest
    \/ \E fetched \in FetchedLists(DofFetched, MaxBatch) :
           IngestReplaceDelete(fetched) /\ UNCHANGED otherThanIngest
    \/ IngestReplaceInsert /\ UNCHANGED otherThanIngest
    \/ IngestClearSat /\ UNCHANGED otherThanIngest
    \/ \E fetched \in FetchedLists(SatFetched, MaxBatch) :
           IngestFetchSat(fetched) /\ UNCHANGED otherThanIngest
    \/ IngestInsertSat /\ UNCHANGED otherThanIngest
    \/ IngestCommit /\ UNCHANGED otherThanIngest
    \/ IngestFail /\ UNCHANGED otherThanIngest

(***************************************************************************)
(* scheduler.py and the deferred startup task of main.py                   *)
(***************************************************************************)
\* batch_jobs, lines 80-85: daily_sat_batch_0 .. daily_sat_batch_3, one every half hour
NumBatchJobs == 4
JobOfSlot(s) == (s - 1) % NumBatchJobs

\* the batch after whose ingestion _run_sat_batch calls the sweep (line 46)
SweepBatch == 3

\* _try_advisory_lock, lines 27-41: True on sqlite, the answer of
\* pg_try_advisory_lock on postgres, True when the query raised
_try_advisory_lock(r, outcome) ==
    IF db_kind = "sqlite" THEN TRUE
    ELSE IF outcome = "exception" THEN TRUE
    ELSE lock_holder \in {Null, r}

SchedIdle ==
    /\ db_kind = "sqlite"
    /\ lock_holder = Null
    /\ scheduler_running = [r \in Replicas |-> FALSE]
    /\ in_flight = {}
    /\ slot = 0
    /\ last_fired = [r \in Replicas |-> 0]
    /\ startup = [r \in Replicas |-> "sleeping"]
    /\ sweeps_triggered = 0
    /\ process = [r \in Replicas |-> "starting"]
    /\ failed_today = FALSE

SchedStart ==
    /\ db_kind \in {"sqlite", "postgres"}
    /\ lock_holder = Null
    /\ scheduler_running = [r \in Replicas |-> FALSE]
    /\ in_flight = {}
    /\ slot = 0
    /\ last_fired = [r \in Replicas |-> 0]
    /\ startup = [r \in Replicas |-> "sleeping"]
    /\ sweeps_triggered = 0
    /\ process = [r \in Replicas |-> "starting"]
    /\ failed_today = FALSE

\* start_scheduler, lines 61-103, called once by the lifespan of a process
\* (main.py:114): the jobs are added and the scheduler started when
\* _try_advisory_lock returned True; the triggers of the slots already past
\* are not fired
StartScheduler(r, outcome) ==
    /\ process[r] = "starting"
    /\ ~scheduler_running[r]
    /\ process' = [process EXCEPT ![r] = "serving"]
    /\ scheduler_running' = [scheduler_running EXCEPT ![r] = _try_advisory_lock(r, outcome)]
    /\ lock_holder' = IF db_kind = "postgres" /\ outcome = "answered" /\ lock_holder = Null
                      THEN r ELSE lock_holder
    /\ last_fired' = [last_fired EXCEPT ![r] = slot]
    /\ UNCHANGED <<db_kind, in_flight, slot, startup, sweeps_triggered, failed_today>>

\* the next half-hour slot of the cron triggers is reached (lines 81-84); the
\* slot of batch 0 opens a new day
CronTick ==
    /\ slot < MaxSlots
    /\ slot' = slot + 1
    /\ failed_today' = (JobOfSlot(slot + 1) # 0 /\ failed_today)
    /\ UNCHANGED <<db_kind, lock_holder, scheduler_running, in_flight, last_fired, startup,
                   sweeps_triggered, process>>

\* lines 86-94: the running scheduler of r fires the job of the current slot;
\* max_instances=1 skips the run while an instance of the same job id is executing
CronFire(r) ==
    /\ scheduler_running[r]
    /\ slot >= 1
    /\ last_fired[r] < slot
    /\ last_fired' = [last_fired EXCEPT ![r] = slot]
    /\ in_flight' = in_flight \cup {<<r, JobOfSlot(slot)>>}
    /\ UNCHANGED <<db_kind, lock_holder, scheduler_running, slot, startup, sweeps_triggered,
                   process, failed_today>>

\* _run_sat_batch, lines 44-48: run_ingestion returned, the sweep follows batch 3.
\* run_ingestion returns when its call of SATDatosAbiertosFetcher.run returns
\* (see IngestFetchSat).
IngestionReturns(r, k) ==
    /\ <<r, k>> \in in_flight
    /\ in_flight' = in_flight \ {<<r, k>>}
    /\ sweeps_triggered' = IF k = SweepBatch THEN sweeps_triggered + 1 ELSE sweeps_triggered
    /\ UNCHANGED <<db_kind, lock_holder, scheduler_running, slot, last_fired, startup, process,
                   failed_today>>

\* _run_sat_batch, line 45: run_ingestion raised, the job ends with the exception
IngestionRaises(r, k) ==
    /\ <<r, k>> \in in_flight
    /\ in_flight' = in_flight \ {<<r, k>>}
    /\ failed_today' = (failed_today \/ k # SweepBatch)
    /\ UNCHANGED <<db_kind, lock_holder, scheduler_running, slot, last_fired, startup,
                   sweeps_triggered, process>>

\* _delayed_ingest_and_sweep, main.py:132-156: after the sleep the freshness
\* gate returns, or run_ingestion(sat_max_files=10) is called; run_ingestion has
\* no parameter sat_max_files, the call raises TypeError before its body is
\* entered and the except of line 153 logs it
DeferredStartup(r, fresh) ==
    /\ process[r] = "serving"
    /\ startup[r] = "sleeping"
    /\ startup' = [startup EXCEPT ![r] = IF fresh THEN "skipped" ELSE "raised"]
    /\ UNCHANGED <<db_kind, lock_holder, scheduler_running, in_flight, slot, last_fired,
                   sweeps_triggered, process, failed_today>>

\* pg_advisory_unlock, lines 123-130: the lock is released when the statement
\* runs on the database session that took it; on another connection of the
\* pool it returns false, and an exception is swallowed
Unlock(r, outcome) ==
    IF db_kind = "postgres" /\ outcome = "answered" /\ lock_holder = r
    THEN Null ELSE lock_holder

\* shutdown_scheduler, lines 119-130, called when the lifespan is left
\* (main.py:162): the scheduler stops with the jobs it was running,
\* pg_advisory_unlock is sent on a connection of the pool
ShutdownScheduler(r, outcome) ==
    /\ process[r] = "serving"
    /\ process' = [process EXCEPT ![r] = "stopped"]
    /\ scheduler_running' = [scheduler_running EXCEPT ![r] = FALSE]
    /\ in_flight' = {j \in in_flight : j[1] # r}
    /\ lock_holder' = Unlock(r, outcome)
    /\ UNCHANGED <<db_kind, slot, last_fired, startup, sweeps_triggered, failed_today>>

\* the process ends after its lifespan: the database closes its sessions and
\* frees the advisory lock one of them still held
ProcessExit(r) ==
    /\ process[r] = "stopped"
    /\ lock_holder = r
    /\ lock_holder' = Null
    /\ UNCHANGED <<db_kind, scheduler_running, in_flight, slot, last_fired, startup,
                   sweeps_triggered, process, failed_today>>

otherThanSched == <<riskVars, tableVars, sweepVars, ingestVars, feedVars>>

SchedNext ==
    \/ \E r \in Replicas, outcome \in {"answered", "exception"} :
           StartScheduler(r, outcome) /\ UNCHANGED otherThanSched
    \/ CronTick /\ UNCHANGED otherThanSched
    \/ \E r \in Replicas : CronFire(r) /\ UNCHANGED otherThanSched
    \/ \E r \in Replicas, k \in 0..(NumBatchJobs - 1) :
           IngestionReturns(r, k) /\ UNCHANGED otherThanSched
    \/ \E r \in Replicas, k \in 0..(NumBatchJobs - 1) :
           IngestionRaises(r, k) /\ UNCHANGED otherThanSched
    \/ \E r \in Replicas, fresh \in BOOLEAN : DeferredStartup(r, fresh) /\ UNCHANGED otherThanSched
    \/ \E r \in Replicas, outcome \in {"answered", "other_session", "exception"} :
           ShutdownScheduler(r, outcome) /\ UNCHANGED otherThanSched
    \/ \E r \in Replicas : ProcessExit(r) /\ UNCHANGED otherThanSched

(***************************************************************************)
(* dof_fetcher.py: _classify_notice                                        *)
(***************************************************************************)
\* A title is a sequence of words and a keyword is a sequence of lower-case
\* words: "keyword in t" is read on whole words.  Accents are left out.

\* str.lower() on the words of the model
LowerWords(t) ==
    LET lower(w) == CASE w = "69-B" -> "69-b"
                      [] w = "BIS" -> "bis"
                      [] w = "Bis" -> "bis"
                      [] w = "SAT" -> "sat"
                      [] w = "Definitivo" -> "definitivo"
                      [] OTHER -> w
    IN [i \in DOMAIN t |-> lower(t[i])]

\* keyword in t
ContainsWords(t, keyword) ==
    \E i \in 1..(Len(t) - Len(keyword) + 1) : SubSeq(t, i, i + Len(keyword) - 1) = keyword

Rule(keyword, art, st) == [keyword |-> keyword, art |-> art, st |-> st]

\* _ARTICLE_RULES (lines 51-72), in list order
_ARTICLE_RULES ==
    << Rule(<<"69-b", "bis">>, "art_69_bis", Null),
       Rule(<<"69", "b", "bis">>, "art_69_bis", Null),
       Rule(<<"perdidas", "fiscales">>, "art_69_bis", Null),
       Rule(<<"69-b">>, "art_69b", Null),
       Rule(<<"efos">>, "art_69b", Null),
       Rule(<<"operaciones", "presuntamente", "inexistentes">>, "art_69b", Null),
       Rule(<<"operaciones", "simuladas">>, "art_69b", Null),
       Rule(<<"operaciones", "inexistentes">>, "art_69b", Null),
       Rule(<<"49", "bis">>, "art_49_bis", Null),
       Rule(<<"49-bis">>, "art_49_bis", Null),
       Rule(<<"articulo", "69">>, "art_69", Null),
       Rule(<<"contribuyentes", "incumplidos">>, "art_69", Null),
       Rule(<<"no", "localizado">>, "art_69", "no_localizado"),
       Rule(<<"credito", "fiscal", "firme">>, "art_69", "credito_firme"),
       Rule(<<"creditos", "fiscales">>, "art_69", "credito_firme"),
       Rule(<<"sello", "digital">>, "art_69", "csd_sin_efectos") >>

\* _STATUS_HINTS (lines 74-84), in list order
_STATUS_HINTS ==
    << Rule(<<"presunto">>, Null, "presunto"),
       Rule(<<"definitivo">>, Null, "definitivo"),
       Rule(<<"desvirtuado">>, Null, "desvirtuado"),
       Rule(<<"sentencia", "favorable">>, Null, "sentencia_favorable"),
       Rule(<<"sentencias", "favorable">>, Null, "sentencia_favorable"),
       Rule(<<"sentencia", "condenatoria">>, Null, "sentencia_condenatoria"),
       Rule(<<"no", "localizado">>, Null, "no_localizado"),
       Rule(<<"cancelado">>, Null, "credito_cancelado"),
       Rule(<<"firme">>, Null, "credito_firme") >>

\* variant of FirstRule: the scan keeps the last rule whose keyword occurs
RECURSIVE FirstRule_Last(_, _)
FirstRule_Last(rules, t) ==
    IF rules = <<>> THEN <<>>
    ELSE IF FirstRule_Last(Tail(rules), t) # <<>> THEN FirstRule_Last(Tail(rules), t)
    ELSE IF ContainsWords(t, Head(rules).keyword) THEN <<Head(rules)>>
    ELSE <<>>
\* the for loops with break of lines 93-104 and 109-112: the first rule of
\* the list whose keyword occurs in t, <<>> when there is none
RECURSIVE FirstRule(_, _)
FirstRule(rules, t) ==
    IF rules = <<>> THEN <<>>
    ELSE IF ContainsWords(t, Head(rules).keyword) THEN <<Head(rules)>>
    ELSE FirstRule(Tail(rules), t)

\* _classify_notice(title), lines 87-106
_classify_notice(title) ==
    LET t == LowerWords(title)
        rule == FirstRule(_ARTICLE_RULES, t)
        article_type == IF rule = <<>> THEN "art_69b" ELSE rule[1].art
        pinned == IF rule = <<>> THEN Null ELSE rule[1].st
        hint == FirstRule(_STATUS_HINTS, t)
    IN <<article_type,
         IF pinned # Null THEN pinned ELSE IF hint = <<>> THEN Null ELSE hint[1].st>>

(***************************************************************************)
(* DOFFetcher.run and SIDOFFetcher.run: one fetch run                      *)
(***************************************************************************)
\* the lists to_fetch can be: candidates with distinct codigo (lines 281-287)
\* whose titles hold a word of SAT_KEYWORDS (filter_sat_related)
Candidates ==
    LET DofTitles ==
            { <<"SAT">>,
              <<"69-B", "BIS", "Definitivo">>,
              <<"69-b", "presunto">>,
              <<"no", "localizado">>,
              <<"sello", "digital", "cancelado">>,
              <<"articulo", "69", "firme">>,
              <<"efos", "69-b", "bis">> }
    IN UNION {{[i \in 1..k |-> [codigo |-> i, title |-> f[i]]] : f \in [1..k -> DofTitles]} :
                 k \in 0..MaxItems}

\* the dicts appended for one candidate (lines 297-325; sidof_fetcher.py:135-166):
\* one per entity, one with rfc None when there is no entity
NoticesOf(fetcher, item, entities) ==
    LET cls == _classify_notice(item.title)
        dict(rfc) == [source |-> fetcher, dof_url |-> item.codigo, rfc |-> rfc,
                      article_type |-> cls[1], status |-> cls[2], motivo |-> item.title]
    IN IF entities = <<>> THEN <<dict(Null)>>
       ELSE [i \in DOMAIN entities |-> dict(entities[i])]

\* variant of OnDetailError: the exception ends the loop
OnDetailError_Abort(remaining) == <<>>
\* the except of lines 326-327 (sidof_fetcher.py:167-168): the candidate is
\* logged and the loop goes on with the next one
OnDetailError(remaining) == Tail(remaining)

\* lines 265-290: the index and the edition pages are fetched and parsed, the
\* links are filtered; the loop over to_fetch begins
DofRunBegin(fetcher, items) ==
    /\ dof_pc = "idle"
    /\ dof_fetcher' = fetcher
    /\ dof_candidates' = items
    /\ to_fetch' = items
    /\ dof_pc' = "loop"
    /\ UNCHANGED <<notices_for_db, dof_fetched, dof_skipped>>

\* DOFFetcher.fetch_index raises (line 268): the outer except of lines 328-329
\* logs it and the run returns its empty list.  SIDOFFetcher.fetch_page
\* returns None instead.
DofIndexFails ==
    /\ dof_pc = "idle"
    /\ dof_fetcher' = "dof"
    /\ dof_pc' = "returned"
    /\ UNCHANGED <<dof_candidates, to_fetch, notices_for_db, dof_fetched, dof_skipped>>

\* lines 292-325: the detail page of the next candidate is fetched, classified
\* and its entities appended
DofDetailOk(entities) ==
    /\ dof_pc = "loop"
    /\ to_fetch # <<>>
    /\ notices_for_db' = notices_for_db \o NoticesOf(dof_fetcher, Head(to_fetch), entities)
    /\ dof_fetched' = Append(dof_fetched, [item |-> Head(to_fetch), entities |-> entities])
    /\ to_fetch' = Tail(to_fetch)
    /\ UNCHANGED <<dof_pc, dof_fetcher, dof_candidates, dof_skipped>>

\* lines 294 and 326-327: fetch_notice_detail raises for the next candidate
DofDetailFails ==
    /\ dof_pc = "loop"
    /\ to_fetch # <<>>
    /\ dof_skipped' = dof_skipped \cup {Head(to_fetch).codigo}
    /\ to_fetch' = OnDetailError(to_fetch)
    /\ UNCHANGED <<dof_pc, dof_fetcher, dof_candidates, notices_for_db, dof_fetched>>

\* line 330: return notices_for_db
DofReturn ==
    /\ dof_pc = "loop"
    /\ to_fetch = <<>>
    /\ dof_pc' = "returned"
    /\ UNCHANGED <<dof_fetcher, dof_candidates, to_fetch, notices_for_db, dof_fetched,
                   dof_skipped>>

DofNext ==
    \/ \E fetcher \in {"dof", "sidof"}, items \in Candidates :
           DofRunBegin(fetcher, items) /\ UNCHANGED <<coreVars, satVars, newsVars>>
    \/ DofIndexFails /\ UNCHANGED <<coreVars, satVars, newsVars>>
    \/ \E entities \in {<<>>, <<"R1">>, <<"R1", "R2">>} : DofDetailOk(entities) /\ UNCHANGED <<coreVars, satVars, newsVars>>
    \/ DofDetailFails /\ UNCHANGED <<coreVars, satVars, newsVars>>
    \/ DofReturn /\ UNCHANGED <<coreVars, satVars, newsVars>>

(***************************************************************************)
(* sat_datos_abiertos_fetcher.py: the link classifier and the tabular       *)
(* extractor                                                               *)
(***************************************************************************)
\* FILE_CLASSIFICATION (lines 71-105), in list order; accents are left out
FILE_CLASSIFICATION ==
    << Rule(<<"definitivo">>, "art_69b", "definitivo"),
       Rule(<<"presunto">>, "art_69b", "presunto"),
       Rule(<<"desvirtuado">>, "art_69b", "desvirtuado"),
       Rule(<<"sentencia", "favorable">>, "art_69b", "sentencia_favorable"),
       Rule(<<"sentencias", "favorable">>, "art_69b", "sentencia_favorable"),
       Rule(<<"listado", "completo">>, "art_69b", Null),
       Rule(<<"listado", "global">>, "art_69_bis", "definitivo"),
       Rule(<<"69-b", "bis">>, "art_69_bis", Null),
       Rule(<<"firme">>, "art_69", "credito_firme"),
       Rule(<<"no", "localizado">>, "art_69", "no_localizado"),
       Rule(<<"cancelado">>, "art_69", "credito_cancelado"),
       Rule(<<"sentencia">>, "art_69", "sentencia_condenatoria"),
       Rule(<<"exigible">>, "art_69", "credito_firme"),
       Rule(<<"csd", "sin", "efecto">>, "art_69", Null),
       Rule(<<"entes", "publicos">>, "art_69", Null),
       Rule(<<"gobierno", "omisos">>, "art_69", Null),
       Rule(<<"omisos">>, "art_69", Null),
       Rule(<<"retorno">>, "art_69", Null),
       Rule(<<"inversiones">>, "art_69", Null),
       Rule(<<"condonado">>, "art_69", "credito_cancelado"),
       Rule(<<"concurso", "mercantil">>, "art_69", "credito_cancelado"),
       Rule(<<"146b">>, "art_69", "credito_cancelado"),
       Rule(<<"por", "decreto">>, "art_69", "credito_cancelado"),
       Rule(<<"146a">>, "art_69", "credito_cancelado"),
       Rule(<<"reduccion", "de", "multa">>, "art_69", "credito_cancelado"),
       Rule(<<"reduccion", "de", "recargo">>, "art_69", "credito_cancelado"),
       Rule(<<"articulo", "74">>, "art_69", "credito_cancelado"),
       Rule(<<"articulo", "21">>, "art_69", "credito_cancelado") >>

\* _classify_link(link_text), lines 108-114: the first keyword of the list
\* that occurs in the lower-cased text decides
_classify_link(link_text) ==
    LET rule == FirstRule(FILE_CLASSIFICATION, LowerWords(link_text))
    IN IF rule = <<>> THEN <<"art_69b", Null>> ELSE <<rule[1].art, rule[1].st>>

\* KNOWN_SAT_FILES (lines 56-64): every name ends in .zip
KNOWN_SAT_FILES ==
    << <<"art_69b", "definitivo">>, <<"art_69b", "presunto">>, <<"art_69b", "desvirtuado">>,
       <<"art_69", "credito_firme">>, <<"art_69", "no_localizado">>,
       <<"art_69", "credito_cancelado">>, <<"art_69", "sentencia_condenatoria">> >>

\* RFC_PATTERN.fullmatch on the values of the model
RFC_PATTERN(v) == v \in {"AAA010101AAA"}

\* the None a reader returns instead of a DataFrame
NoDf == [none |-> TRUE]

\* _parse_single_sheet(data, name), lines 245-262, and the same reading of a
\* file that is no archive (lines 286-300): None for another extension and
\* for bytes the reader raises on.  The bytes of a sheet are: a table with
\* an RFC column, one row with an RFC and one without; a table with no RFC
\* column; a table with a header and no row; bytes no reader parses.
_parse_single_sheet(ext, body) ==
    IF ext \notin {"csv", "xlsx", "xls"} THEN NoDf
    ELSE CASE body = "rows" -> [columns |-> {"RFC", "NOMBRE"},
                                rows |-> << [RFC |-> "AAA010101AAA", NOMBRE |-> "ACME"],
                                            [RFC |-> "n/a", NOMBRE |-> "BETA"] >>]
           [] body = "no_rfc_col" -> [columns |-> {"NOMBRE"},
                                      rows |-> << [RFC |-> Null, NOMBRE |-> "ACME"] >>]
           [] body = "header_only" -> [columns |-> {"RFC", "NOMBRE"}, rows |-> <<>>]
           [] OTHER -> NoDf

\* the downloaded files of the model: the extension of the url, the bytes
\* (of a sheet, "garbage", or "archive") and the members of an archive.  A
\* member is a sheet with rows, a spreadsheet of bytes no reader parses, or
\* a sheet whose stored bytes fail the CRC check of ZipFile.read.
SatFiles ==
    LET ArchiveMembers ==
            { [ext |-> "csv", body |-> "rows", crc_ok |-> TRUE],
              [ext |-> "xlsx", body |-> "garbage", crc_ok |-> TRUE],
              [ext |-> "csv", body |-> "rows", crc_ok |-> FALSE] }
    IN
    { [ext |-> e[1], body |-> e[2], members |-> <<>>] :
          e \in { <<"csv", "rows">>, <<"csv", "no_rfc_col">>, <<"csv", "header_only">>,
                  <<"xlsx", "garbage">>, <<"pdf", "rows">>, <<"zip", "garbage">> } }
    \cup UNION {{[ext |-> "zip", body |-> "archive", members |-> m] :
                     m \in [1..k -> ArchiveMembers]} : k \in 0..MaxMembers}

\* parse_file_to_df(data, url), lines 264-301.  In the archive branch
\* ZipFile() raises on bytes that are no archive and zf.read(name) raises on
\* a member that fails its CRC check; both are inside the try of line 270,
\* whose except returns None.
parse_file_to_df(file) ==
    IF file.ext = "zip"
    THEN IF file.body # "archive" THEN NoDf
         ELSE IF \E i \in DOMAIN file.members : ~file.members[i].crc_ok THEN NoDf
         ELSE LET member(i) == _parse_single_sheet(file.members[i].ext, file.members[i].body)
                  kept == SelectSeq([i \in DOMAIN file.members |-> member(i)],
                                    LAMBDA df : df # NoDf /\ df.rows # <<>>)
                  RECURSIVE concat(_)
                  concat(dfs) ==
                      IF Len(dfs) = 1 THEN Head(dfs)
                      ELSE [columns |-> Head(dfs).columns \cup concat(Tail(dfs)).columns,
                            rows |-> Head(dfs).rows \o concat(Tail(dfs)).rows]
              IN IF kept = <<>> THEN NoDf ELSE concat(kept)
    ELSE _parse_single_sheet(file.ext, file.body)

\* _find_rfc_column(df), lines 117-129: a column named RFC, else a column at
\* least 40% of whose first values match RFC_PATTERN (and at least one)
_find_rfc_column(df) ==
    LET sampled(col) ==
            LET sample == SelectSeq([i \in DOMAIN df.rows |-> df.rows[i][col]],
                                    LAMBDA v : v # Null)
                matches == Cardinality({i \in DOMAIN sample : RFC_PATTERN(sample[i])})
            IN matches >= 1 /\ 10 * matches >= 4 * Len(sample)
    IN IF "RFC" \in df.columns THEN "RFC"
       ELSE IF \E col \in df.columns : sampled(col)
            THEN CHOOSE col \in df.columns : sampled(col)
            ELSE Null

\* extract_notices_from_df(df, source_url, article_type, default_status),
\* lines 303-347: no dict without an RFC column, one dict per row whose RFC
\* matches RFC_PATTERN
extract_notices_from_df(df, source_url, article_type, default_status) ==
    LET rfc_col == _find_rfc_column(df)
        razon_col == IF "NOMBRE" \in df.columns /\ rfc_col # "NOMBRE" THEN "NOMBRE" ELSE Null
        dict(row) == [source |-> SatSource, source_url |-> source_url,
                      rfc |-> row[rfc_col],
                      razon_social |-> IF razon_col = Null THEN Null ELSE row[razon_col],
                      article_type |-> article_type, status |-> default_status,
                      category |-> IF article_type = "art_69" THEN default_status ELSE Null]
        valid == SelectSeq(df.rows, LAMBDA row : row[rfc_col] # Null /\ RFC_PATTERN(row[rfc_col]))
    IN IF rfc_col = Null THEN <<>>
       ELSE [i \in DOMAIN valid |-> dict(valid[i])]

(***************************************************************************)
(* SATDatosAbiertosFetcher.run                                             *)
(***************************************************************************)
\* lines 380-391 and 403-411: the body of both loops after the download.
\* file is NoFile when download_file returned None.  The links of a run have
\* distinct urls (line 201): the url is the ordinal of the file.
HandleFile(file, link_text, class) ==
    LET df == IF file = NoFile THEN NoDf ELSE parse_file_to_df(file)
        skipped == df = NoDf \/ df.rows = <<>>
        notices == IF skipped THEN <<>>
                   ELSE extract_notices_from_df(df, files_processed + 1, class[1], class[2])
    IN /\ all_notices' = all_notices \o notices
       /\ files_processed' = IF skipped THEN files_processed ELSE files_processed + 1
       /\ sat_last' = [link_text |-> link_text, file |-> file, class |-> class,
                       notices |-> notices]

\* lines 358-369: the run begins with the first landing page
SatRunBegin ==
    /\ sat_pc = "idle"
    /\ sat_pc' = "links"
    /\ UNCHANGED <<all_notices, files_processed, known_index, sat_last>>

\* lines 371-391: one link of a landing page
SatLink(link_text, file) ==
    /\ sat_pc = "links"
    /\ files_processed < MaxFiles
    /\ HandleFile(file, link_text, _classify_link(link_text))
    /\ UNCHANGED <<sat_pc, known_index>>

\* lines 372-373, 393-398: the pages have no more link or max_files is
\* reached; the fallback loop begins when nothing was found
SatLinksEnd ==
    /\ sat_pc = "links"
    /\ sat_pc' = IF (all_notices = <<>> \/ files_processed = 0) /\ files_processed < MaxFiles
                 THEN "fallback" ELSE "returned"
    /\ UNCHANGED <<all_notices, files_processed, known_index, sat_last>>

\* lines 399-411: one entry of KNOWN_SAT_FILES
SatKnownFile(file) ==
    /\ sat_pc = "fallback"
    /\ known_index <= Len(KNOWN_SAT_FILES)
    /\ files_processed < MaxFiles
    /\ HandleFile(file, <<>>, KNOWN_SAT_FILES[known_index])
    /\ known_index' = known_index + 1
    /\ UNCHANGED sat_pc

\* lines 399-401, 413-414: the fallback loop ends and the run returns
SatReturn ==
    /\ sat_pc = "fallback"
    /\ known_index > Len(KNOWN_SAT_FILES) \/ files_processed >= MaxFiles
    /\ sat_pc' = "returned"
    /\ UNCHANGED <<all_notices, files_processed, known_index, sat_last>>

SatNext ==
    \/ SatRunBegin /\ UNCHANGED <<coreVars, dofVars, newsVars>>
    \/ \E link_text \in { <<"69-B", "Bis", "definitivo">>, <<"69-B", "Bis">>, <<"firme">> },
          file \in SatFiles \cup {NoFile} :
           SatLink(link_text, file) /\ UNCHANGED <<coreVars, dofVars, newsVars>>
    \/ SatLinksEnd /\ UNCHANGED <<coreVars, dofVars, newsVars>>
    \/ \E file \in {f \in SatFiles : f.ext = "zip"} \cup {NoFile} :
           SatKnownFile(file) /\ UNCHANGED <<coreVars, dofVars, newsVars>>
    \/ SatReturn /\ UNCHANGED <<coreVars, dofVars, newsVars>>

(***************************************************************************)
(* news_ingestion_job.py: run_news_ingestion                               *)
(***************************************************************************)
\* lines 51-77: the loop over news_items.  The select of lines 53-64 sees
\* the committed rows and, by the autoflush of the session, the rows the run
\* added; rows another open session added are not visible.
RECURSIVE news_loop(_, _, _)
news_loop(committed, pending, news_items) ==
    IF news_items = <<>> THEN pending
    ELSE LET n == Head(news_items)
             existing == \E row \in BagToSet(committed (+) pending) :
                             /\ row.url = n.url
                             /\ row.rfc = n.rfc \/ row.razon_social = n.razon_social
         IN news_loop(committed,
                      IF existing THEN pending ELSE pending (+) SetToBag({n}),
                      Tail(news_items))

\* lines 27-77: the companies are loaded, fetch_news_for_companies returns
\* news_items (news_fetcher.py:95-123), and the loop adds the rows that have
\* no existing row; the run returns at line 49 when nothing was fetched
NewsFetchAndCheck(r, news_items) ==
    /\ news_pc[r] = "idle"
    /\ news_runs < MaxRuns
    /\ news_runs' = news_runs + 1
    /\ news_prev' = news_items
    /\ news_overlap' = (news_overlap \/ \E o \in Replicas : news_pc[o] = "checked")
    /\ news_pc' = [news_pc EXCEPT ![r] = IF news_items = <<>> THEN "idle" ELSE "checked"]
    /\ news_pending' = [news_pending EXCEPT ![r] = news_loop(company_news, EmptyBag, news_items)]
    /\ news_rerun' = IF news_items # <<>> /\ news_items = news_prev
                        /\ \A o \in Replicas : news_pc[o] = "idle"
                     THEN IF news_pending'[r] = EmptyBag THEN "clean" ELSE "inserted"
                     ELSE news_rerun
    /\ UNCHANGED company_news

\* line 79: db.commit()
NewsCommit(r) ==
    /\ news_pc[r] = "checked"
    /\ company_news' = company_news (+) news_pending[r]
    /\ news_pending' = [news_pending EXCEPT ![r] = EmptyBag]
    /\ news_pc' = [news_pc EXCEPT ![r] = "idle"]
    /\ UNCHANGED <<news_runs, news_prev, news_rerun, news_overlap>>

\* The articles fetch_news_for_companies can return: two companies of the
\* same name, two urls.
NewsNext ==
    LET Articles == { [url |-> "u1", rfc |-> "R1", razon_social |-> "a"],
                      [url |-> "u1", rfc |-> "R2", razon_social |-> "a"],
                      [url |-> "u2", rfc |-> "R1", razon_social |-> "a"] }
        NewsItems == UNION {[1..k -> Articles] : k \in 0..MaxArticles}
    IN \/ \E r \in Replicas, news_items \in NewsItems :
              NewsFetchAndCheck(r, news_items) /\ UNCHANGED <<coreVars, dofVars, satVars>>
       \/ \E r \in Replicas : NewsCommit(r) /\ UNCHANGED <<coreVars, dofVars, satVars>>

(***************************************************************************)
(* The specifications                                                      *)
(***************************************************************************)
SweepNext ==
    \/ SweepBegin /\ UNCHANGED <<riskVars, ingestVars, schedVars, feedVars>>
    \/ SweepScreenAndUpdate /\ UNCHANGED <<riskVars, ingestVars, schedVars, feedVars>>
    \/ SweepQueryError /\ UNCHANGED <<riskVars, ingestVars, schedVars, feedVars>>
    \/ SweepCommit /\ UNCHANGED <<riskVars, ingestVars, schedVars, feedVars>>

SweepStart == SweepInit /\ RiskIdle /\ IngestIdle /\ SchedIdle /\ FeedIdle

SpecSweep == SweepStart /\ [][SweepNext]_vars

RiskNext == RiskCalculate /\ UNCHANGED <<tableVars, sweepVars, ingestVars, schedVars, feedVars>>

RiskStart == RiskInit /\ TablesIdle /\ SweepIdle /\ IngestIdle /\ SchedIdle /\ FeedIdle

SpecRisk == RiskStart /\ [][RiskNext]_vars

IngestStart == IngestIdle /\ RiskIdle /\ TablesIdle /\ SweepIdle /\ SchedIdle /\ FeedIdle

SpecIngest == IngestStart /\ [][IngestNext]_vars

FeedStart == FeedIdle /\ RiskIdle /\ TablesIdle /\ SweepIdle /\ IngestIdle /\ SchedIdle

SpecDof == FeedStart /\ [][DofNext]_vars

SpecSat == FeedStart /\ [][SatNext]_vars

SpecNews == FeedStart /\ [][NewsNext]_vars

SchedInit == SchedStart /\ RiskIdle /\ TablesIdle /\ SweepIdle /\ IngestIdle /\ FeedIdle

SpecSched == SchedInit /\ [][SchedNext]_vars


(***************************************************************************)
(* Properties of calculate_risk_score (SpecRisk)                           *)
(***************************************************************************)
\* the order critical > high > medium > low > clear of the specification
LevelRank(level) ==
    CASE level = "CLEAR" -> 0
      [] level = "LOW" -> 1
      [] level = "MEDIUM" -> 2
      [] level = "HIGH" -> 3
      [] level = "CRITICAL" -> 4

HighestLevel(levels) == CHOOSE l \in levels : \A m \in levels : LevelRank(m) <= LevelRank(l)

\* the levels of the individual findings of f under the table as the claim gives it
ClaimedTableLevels(f) ==
    {"CLEAR"}
    \cup (IF "sentencia_condenatoria" \in Range(f.art_69_categories) THEN {"CRITICAL"} ELSE {})
    \cup (IF f.art_69b_status \in {"definitivo", "presunto"} THEN {"HIGH"} ELSE {})
    \cup (IF "no_localizado" \in Range(f.art_69_categories) THEN {"MEDIUM"} ELSE {})
    \cup (IF Range(f.art_69_categories) \cap {"credito_firme", "csd_sin_efectos"} # {}
             \/ f.cert_status \in {"revoked", "expired"}
          THEN {"LOW"} ELSE {})

\* the table with the two rows the code adds: a rebutted or favorable-ruling
\* class-B status and a cancelled-tax-debt class-A category are low
AmendedTableLevels(f) ==
    ClaimedTableLevels(f)
    \cup (IF f.art_69b_status \in {"desvirtuado", "sentencia_favorable"} THEN {"LOW"} ELSE {})
    \cup (IF "credito_cancelado" \in Range(f.art_69_categories) THEN {"LOW"} ELSE {})

\* C5 (as claimed): for every combination of class-B status, class-A categories and
\* certificate status, calculate_risk_score returns the highest level among the levels
\* of the individual findings under the table critical <- criminal conviction,
\* high <- confirmed/alleged class-B, medium <- not localizable,
\* low <- firm tax debt, restricted seal, certificate revoked/expired.
C5_AsClaimed ==
    (risk_result # <<>> /\ ~findings.art_49_bis_found)
        => risk_result[2] = HighestLevel(ClaimedTableLevels(findings))

\* C5 (amended): as C5, under the table extended by low <- rebutted or
\* favorable-ruling class-B status and low <- cancelled tax debt; a confirmed class-B
\* status together with a firm-tax-debt category resolves to high.
C5_HighestLevelWins ==
    (risk_result # <<>> /\ ~findings.art_49_bis_found)
        => /\ risk_result[2] = HighestLevel(AmendedTableLevels(findings))
           /\ (findings.art_69b_status = "definitivo"
               /\ findings.art_69_categories = <<"credito_firme">>
               /\ findings.cert_status = Null) => risk_result[2] = "HIGH"

\* the scenario of C5 was computed: confirmed class-B with firm tax debt
C5_Witness ==
    /\ risk_result # <<>>
    /\ ~findings.art_49_bis_found
    /\ findings.art_69b_status = "definitivo"
    /\ findings.art_69_categories = <<"credito_firme">>
    /\ findings.cert_status = Null
    /\ risk_result = <<80, "HIGH">>

(***************************************************************************)
(* Properties of the resweep (SpecSweep)                                   *)
(***************************************************************************)
Store == BagToSet(public_notices)

\* the level of one evidence row taken alone as a finding, under the table of the
\* specification (either boolean-only category is high)
FindingSeverity(n) ==
    CASE n.article_type = "art_69b" ->
             IF Resolve69BStatus(n.status) \in {"definitivo", "presunto"} THEN "HIGH"
             ELSE IF Resolve69BStatus(n.status) = "not_found" THEN "CLEAR"
             ELSE "LOW"
      [] n.article_type = "art_69" ->
             IF CatRaw(n) = "sentencia_condenatoria" THEN "CRITICAL"
             ELSE IF CatRaw(n) = "no_localizado" THEN "MEDIUM"
             ELSE IF CatRaw(n) \in {"credito_firme", "credito_cancelado", "csd_sin_efectos"} THEN "LOW"
             ELSE "CLEAR"
      [] OTHER -> "HIGH"

\* C6: after a resweep, every tracked row whose art_69_bis flag or art_49_bis flag
\* is true has risk level at least high.
C6_FlagsAtLeastHigh ==
    sweep_pc = "done" =>
        \A i \in DOMAIN watchlist_companies :
            (watchlist_companies[i].art_69_bis_found \/ watchlist_companies[i].art_49_bis_found)
                => LevelRank(watchlist_companies[i].risk_level) >= LevelRank("HIGH")

\* the risk fields of the rows (everything but last_screened_at)
RiskFields(rows) ==
    [i \in DOMAIN rows |->
        [risk_level |-> rows[i].risk_level, risk_score |-> rows[i].risk_score,
         art_69b_status |-> rows[i].art_69b_status,
         art_69_categories |-> rows[i].art_69_categories,
         art_69_bis_found |-> rows[i].art_69_bis_found,
         art_49_bis_found |-> rows[i].art_49_bis_found]]

\* C7: a second committed resweep over the same Evidence Store and the same tracked
\* rows leaves every row's risk fields as the first left them and records no transition.
C7_ResweepIdempotent ==
    (sweep_pc = "done" /\ sweeps_committed >= 2)
        => /\ RiskFields(watchlist_companies) = RiskFields(prev_committed)
           /\ changes = 0

\* C8: within a resweep, adding to the evidence a finding whose severity is higher
\* than the level resolved for an identifier never lowers the level resolved for it
\* (the class-B row selected stays the one selected before unless the added row is
\* selected: rows indexed at the same time keep their order within the resweep).
C8_SeverityMonotonic ==
    \A base \in last_screen.findings :
        \A f \in NoticeUniverse :
            LevelRank(FindingSeverity(f)) > LevelRank(base.risk_level)
                => \A row_69b \in Row69BChoices(Store \cup {f}, UpperStripRfc(last_screen.rfc),
                                                last_screen.razon_social) :
                       row_69b \subseteq (last_screen.row_69b \cup {f})
                           => LevelRank(ScreenFindings(Store \cup {f},
                                                       UpperStripRfc(last_screen.rfc),
                                                       last_screen.razon_social,
                                                       row_69b).risk_level)
                                  >= LevelRank(base.risk_level)

\* an identifier was resolved to a level that is not clear from name-matched class-A
\* rows only, and a finding of higher severity carrying its own taxpayer id exists
\* that is not yet in the store
C8_Witness ==
    \E base \in last_screen.findings :
        /\ base.risk_level = "MEDIUM"
        /\ ExactRows(Store, UpperStripRfc(last_screen.rfc), "art_69") = {}
        /\ \E f \in NoticeUniverse \ Store :
              /\ f.rfc = UpperStripRfc(last_screen.rfc)
              /\ f.article_type = "art_69"
              /\ LevelRank(FindingSeverity(f)) > LevelRank(base.risk_level)

\* C9: a query error while resolving one identifier does not abort the resweep:
\* the resweep goes on (and commits), it does not end rolled back.
C9_QueryErrorDoesNotAbort ==
    query_errors > 0 => sweep_pc \in {"loop", "done"}

\* the class-B rows of the identifier screened last: those carrying its taxpayer
\* id, or the name-matched ones when there is none
ClassBRows(rfc, razon_social) ==
    IF ExactRows(Store, UpperStripRfc(rfc), "art_69b") # {}
    THEN ExactRows(Store, UpperStripRfc(rfc), "art_69b")
    ELSE NameFilterRows(Store, razon_social, "art_69b")

StatusIsSevere(st) == st \in {"definitivo", "presunto"}

\* C10 (as claimed): with several class-B records of different statuses, the status
\* resolved is the most severe among them (confirmed or alleged over rebutted or
\* favorable-ruling), whatever the order in which they were indexed.
C10_AsClaimed ==
    \A fnd \in last_screen.findings :
        (\E n \in ClassBRows(last_screen.rfc, last_screen.razon_social) :
             StatusIsSevere(Resolve69BStatus(n.status)))
            => StatusIsSevere(fnd.art_69b_status)

\* C10 (amended): the status resolved is the status of a class-B record of the
\* identifier that no other one was indexed after, whatever its severity.
C10_MostRecentStatus ==
    \A fnd \in last_screen.findings :
        LET rows == ClassBRows(last_screen.rfc, last_screen.razon_social)
        IN IF rows = {} THEN fnd.art_69b_status = Null
           ELSE \E n \in rows :
                   /\ \A m \in rows : m.indexed_at <= n.indexed_at
                   /\ fnd.art_69b_status = Resolve69BStatus(n.status)

\* an identifier with a confirmed record and a later rebutted record was screened
C10_Witness ==
    \E fnd \in last_screen.findings :
        \E n, m \in ClassBRows(last_screen.rfc, last_screen.razon_social) :
            /\ n.status = "definitivo"
            /\ m.status = "desvirtuado"
            /\ n.indexed_at < m.indexed_at
            /\ fnd.art_69b_status = "desvirtuado"

C3_FailedBatchRolledBack ==
    /\ ing_pc \in InProgress \cup {"failed"} => Committed = ing_before
    /\ ing_pc = "committed" =>
           \A r \in BagToSet(RowsOf(sat_notices, ing_now) (+) RowsOf(dof_notices, ing_now)) :
               CopiesIn(r, public_notices)
                   = CopiesIn(r, RowsOf(sat_notices, ing_now) (+) RowsOf(dof_notices, ing_now))

\* a batch-0 run failed after it had deleted the rows of source "dof" of an
\* earlier run and inserted only part of the new batch
C3_Witness ==
    /\ ing_pc = "failed"
    /\ ing_batch = 0
    /\ BagOfSource(ing_before.notices, DofSource) # EmptyBag
    /\ ing_lost.pending # <<>>
    /\ Len(ing_lost.pending) < Len(dof_notices)
    /\ BagOfSource(ing_lost.notices, DofSource) # BagOfSource(ing_before.notices, DofSource)
    /\ BagOfSource(public_notices, DofSource) = BagOfSource(ing_before.notices, DofSource)

(***************************************************************************)
(* Properties of the scheduler (SpecSched)                                 *)
(***************************************************************************)
\* C4: at any time at most one execution of run_ingestion is in flight, over
\* all replicas and batch indices.
C4_SingleRunInFlight == Cardinality(in_flight) <= 1

(***************************************************************************)
(* Further properties of the resweep (SpecSweep)                           *)
(***************************************************************************)
\* a record matches a tracked (taxpayer id, name): it carries the id, or its
\* name contains the non-blank name
MatchesIdentifier(n, rfc, razon_social) ==
    \/ n.rfc = UpperStripRfc(rfc)
    \/ Strip(razon_social) # <<>> /\ ILikeContains(n.razon_social, Strip(razon_social))

\* C11: when the Evidence Store holds no record matching the taxpayer id or the
\* name of the identifier just resolved, the resweep has written to its rows level
\* clear, score 0, no class-B status, no categories and both flags false.
C11_NoMatchWritesClear ==
    (/\ sweep_pc \in {"loop", "done"}
     /\ last_screen.rfc # Null
     /\ \A n \in Store : ~MatchesIdentifier(n, last_screen.rfc, last_screen.razon_social))
        => \A i \in RowsOfRfc(session_companies, last_screen.rfc) :
               /\ session_companies[i].risk_level = "CLEAR"
               /\ session_companies[i].risk_score = 0
               /\ session_companies[i].art_69b_status = Null
               /\ session_companies[i].art_69_categories = {}
               /\ ~session_companies[i].art_69_bis_found
               /\ ~session_companies[i].art_49_bis_found

\* an identifier was resolved over a store that holds records, none of them
\* matching it, and its rows were written
C11_Witness ==
    /\ sweep_pc = "loop"
    /\ last_screen.rfc # Null
    /\ Store # {}
    /\ \A n \in Store : ~MatchesIdentifier(n, last_screen.rfc, last_screen.razon_social)
    /\ \E i \in RowsOfRfc(session_companies, last_screen.rfc) :
           session_companies[i].last_screened_at = sweep_now

\* the lookup of the specification: clear=0, low=25, medium=50, high=80, critical=100
LevelScorePairs ==
    {<<"CLEAR", 0>>, <<"LOW", 25>>, <<"MEDIUM", 50>>, <<"HIGH", 80>>, <<"CRITICAL", 100>>}

\* C12: every (level, score) the resweep writes to a tracked row, and every row
\* after a committed resweep, is a pair of the fixed lookup.
C12_ScoreIsLookupOfLevel ==
    /\ \A i \in DOMAIN session_companies :
           session_companies[i].last_screened_at # NeverScreened
               => <<session_companies[i].risk_level, session_companies[i].risk_score>>
                      \in LevelScorePairs
    /\ sweep_pc = "done"
           => \A i \in DOMAIN watchlist_companies :
                  <<watchlist_companies[i].risk_level, watchlist_companies[i].risk_score>>
                      \in LevelScorePairs

\* a committed resweep left a row at level high with score 80
C12_Witness ==
    /\ sweep_pc = "done"
    /\ \E i \in DOMAIN watchlist_companies :
           /\ watchlist_companies[i].risk_level = "HIGH"
           /\ watchlist_companies[i].risk_score = 80

\* C13: when the identifier just resolved has a class-A record of category
\* csd_sin_efectos under its taxpayer id, the level written to its rows is at
\* least low, not clear.
C13_CsdSinEfectosIsLow ==
    (/\ sweep_pc \in {"loop", "done"}
     /\ last_screen.rfc # Null
     /\ \E n \in Store : /\ n.rfc = UpperStripRfc(last_screen.rfc)
                         /\ n.article_type = "art_69"
                         /\ CatRaw(n) = "csd_sin_efectos")
        => \A i \in RowsOfRfc(session_companies, last_screen.rfc) :
               LevelRank(session_companies[i].risk_level) >= LevelRank("LOW")

\* C14: each iteration of the resweep loop adds to the count of recorded
\* transitions exactly the number of rows whose level it changed (a
\* never-screened row has no level), and the iteration does not fail.
C14_TransitionIffLevelChanged ==
    [][(sweep_pc = "loop" /\ companies' # companies)
          => /\ changes' = changes
                   + Cardinality({i \in DOMAIN session_companies :
                                     session_companies[i].risk_level
                                         # session_companies'[i].risk_level})
             /\ sweep_pc' = "loop"]_vars

\* in a second resweep a row was written again with the level it had and no
\* transition was recorded, after the first resweep had recorded transitions
\* for the never-screened rows
C14_Witness ==
    /\ sweep_pc = "loop"
    /\ sweep_now = 2
    /\ sweeps_committed = 1
    /\ last_screen.rfc # Null
    /\ changes = 0
    /\ \E i \in RowsOfRfc(session_companies, last_screen.rfc) :
           /\ session_companies[i].last_screened_at = sweep_now
           /\ session_companies[i].risk_level = watchlist_companies[i].risk_level

(***************************************************************************)
(* Further properties of the scheduler (SpecSched)                         *)
(***************************************************************************)

C16_AtMostOneScheduler ==
    Cardinality({r \in Replicas : scheduler_running[r]}) <= 1

\* C17: the advisory lock is held by a replica only between its start_scheduler
\* and its shutdown_scheduler: once shutdown_scheduler has returned the replica
\* holds the lock no more.
C17_LockReleasedAtShutdown ==
    \A r \in Replicas : lock_holder = r => process[r] = "serving"

(***************************************************************************)
(* Further properties of the ingestion (SpecIngest)                        *)
(***************************************************************************)

\* the rows of a table (a bag) of the other sources than the given one
BagOfOthers(rows, source) ==
    [r \in {x \in BagToSet(rows) : x.source # source} |-> rows[r]]

LowerVolumeSources == {DofSource, GacetaSource, LeyesSource}

\* a step of a run of batch 1 or higher that does not roll back keeps every
\* row the session had and leaves the rows of the other sources as they were
AppendsSatOnly ==
    (ing_pc \in InProgress /\ ing_batch >= 1 /\ ing_pc' # "failed") =>
        /\ tx_notices \sqsubseteq tx_notices'
        /\ BagOfOthers(tx_notices', SatSource) = BagOfOthers(tx_notices, SatSource)
        /\ public_notices \sqsubseteq public_notices'

\* C18: a run of batch 0 fetches the gazette, the legislative and the
\* law-reform source and deletes the prior generation of the high-volume
\* source; a run of batch 1 or higher fetches none of them, only appends rows of
\* the high-volume source and deletes no row.
C18_BatchZeroLowerVolume ==
    /\ [](ing_pc = "committed" =>
              IF ing_batch = 0
              THEN /\ LowerVolumeSources \subseteq FetchedSources(ing_batch)
                   /\ \A r \in BagToSet(BagOfSource(public_notices, SatSource)) :
                          r.indexed_at = ing_now
              ELSE LowerVolumeSources \cap FetchedSources(ing_batch) = {})
    /\ [][AppendsSatOnly]_vars

\* the parts of C18 about the high-volume source and the later batches
C18_SatPart ==
    /\ [](ing_pc = "committed" =>
              IF ing_batch = 0
              THEN \A r \in BagToSet(BagOfSource(public_notices, SatSource)) :
                       r.indexed_at = ing_now
              ELSE LowerVolumeSources \cap FetchedSources(ing_batch) = {})
    /\ [][AppendsSatOnly]_vars

ExactOfCategory(t) ==
    {n \in Store : n.rfc = UpperStripRfc(last_screen.rfc) /\ n.article_type = t}

\* the records of the Store of one article category whose name contains the
\* name screened last
NamedOfCategory(t) ==
    {n \in Store : /\ n.article_type = t
                   /\ ILikeContains(n.razon_social, Strip(last_screen.razon_social))}

\* the records the claim says are used for the category
UsedOfCategory(t) ==
    IF ExactOfCategory(t) # {} THEN ExactOfCategory(t)
    ELSE IF Strip(last_screen.razon_social) # <<>> THEN NamedOfCategory(t)
    ELSE {}

\* C20: for each article category the screening uses the exact-id records when
\* there is one, the records matched by name only when there is none and the
\* name is not blank; the class-B record is one of the most recently indexed
\* of them.  Both for _screen_rfc_against_notices and for the rows of screen_69.
C20_ExactIdBeforeName ==
    last_screen.rfc # Null =>
        /\ last_screen.row_69b \subseteq UsedOfCategory("art_69b")
        /\ (last_screen.row_69b = {}) = (UsedOfCategory("art_69b") = {})
        /\ \A n \in last_screen.row_69b : \A m \in UsedOfCategory("art_69b") :
               m.indexed_at <= n.indexed_at
        /\ \A f \in last_screen.findings :
               /\ f.art_69_categories = {CatRaw(n) : n \in UsedOfCategory("art_69")} \ {Null}
               /\ f.art_69_bis_found = (UsedOfCategory("art_69_bis") # {})
               /\ f.art_49_bis_found = (UsedOfCategory("art_49_bis") # {})
        /\ Screen69Rows(Store, last_screen.rfc, last_screen.razon_social)
               = UsedOfCategory("art_69")

\* an identifier was screened with a name that is not blank while the Store held
\* an exact-id record and a namesake's record of the same category, and only
\* the exact-id record was used
C20_Witness ==
    /\ last_screen.rfc # Null
    /\ Strip(last_screen.razon_social) # <<>>
    /\ ExactOfCategory("art_69") # {}
    /\ NamedOfCategory("art_69") \ ExactOfCategory("art_69") # {}
    /\ \E f \in last_screen.findings :
           f.art_69_categories = {CatRaw(n) : n \in ExactOfCategory("art_69")} \ {Null}
    /\ \E n \in NamedOfCategory("art_69") : CatRaw(n) \notin UNION {f.art_69_categories : f \in last_screen.findings}

\* C21: a failure of one fetcher leaves the records of the other fetcher of the
\* same batch stored: when the call of SATDatosAbiertosFetcher.run raised, the
\* rows of the list DOFFetcher.run returned to this run are in the table.
C21_FetcherFailureIsolated ==
    (ing_pc = "failed" /\ ing_lost.at = "fetch_sat" /\ ing_batch = 0) =>
        RowsOf(dof_notices, ing_now) \sqsubseteq public_notices

(***************************************************************************)
(* The snapshot a resweep leaves (SpecSweep)                               *)
(***************************************************************************)

\* C26: after a committed resweep the risk fields of every tracked row are
\* findings _screen_rfc_against_notices computes from the Store for the row's
\* own (rfc, razon_social) pair.
C26_RowsHoldOwnFindings ==
    (sweep_pc = "done" /\ sweeps_committed >= 1) =>
        \A i \in DOMAIN watchlist_companies :
            RiskFields(watchlist_companies)[i] \in
                _screen_rfc_against_notices(Store, watchlist_companies[i].rfc,
                                            watchlist_companies[i].razon_social)

(***************************************************************************)
(* The on-demand lookup against the resweep (SpecSweep)                    *)
(***************************************************************************)

\* C27: for an identifier screened without a name, the resweep computes a
\* (risk_score, risk_level) that lookup_rfc can return for the same Store.
C27_LookupAgreesWithResweep ==
    (last_screen.rfc # Null /\ Strip(last_screen.razon_social) = <<>>) =>
        \A f \in last_screen.findings :
            <<f.risk_score, f.risk_level>> \in lookup_rfc(Store, last_screen.rfc)

\* C28: when the class-B record selected for an identifier has no status, or a
\* status that is not an Art69BStatus, the status resolved is presunto and the
\* level is at least HIGH, in the resweep and in lookup_rfc.
C28_UnknownStatusIsPresunto ==
    /\ \A n \in last_screen.row_69b :
           (n.status = Null \/ n.status \notin Art69BStatus) =>
               \A f \in last_screen.findings :
                   /\ f.art_69b_status = "presunto"
                   /\ LevelRank(f.risk_level) >= LevelRank("HIGH")
    /\ (/\ last_screen.rfc # Null
        /\ ExactOfCategory("art_69b") # {}
        /\ \A n \in LatestRows(ExactOfCategory("art_69b")) :
               n.status = Null \/ n.status \notin Art69BStatus)
           => /\ screen_69b(Store, UpperStripRfc(last_screen.rfc)) = {"presunto"}
              /\ \A r \in lookup_rfc(Store, last_screen.rfc) :
                     LevelRank(r[2]) >= LevelRank("HIGH")

\* the record selected for an identifier carried a status that is no
\* Art69BStatus, and the findings went to presunto and HIGH
C28_Witness ==
    /\ \E n \in last_screen.row_69b : n.status # Null /\ n.status \notin Art69BStatus
    /\ \E f \in last_screen.findings : f.art_69b_status = "presunto" /\ f.risk_level = "HIGH"
    /\ screen_69b(Store, UpperStripRfc(last_screen.rfc)) = {"presunto"}

(***************************************************************************)
(* The sweep metadata row (SpecIngest)                                     *)
(***************************************************************************)

C22_FailedDetailSkipped ==
    dof_pc = "returned" =>
        /\ \A i \in DOMAIN dof_candidates :
               \/ dof_candidates[i].codigo \in dof_skipped
               \/ \E j \in DOMAIN dof_fetched : dof_fetched[j].item = dof_candidates[i]
        /\ \A j \in DOMAIN dof_fetched :
               LET made == NoticesOf(dof_fetcher, dof_fetched[j].item, dof_fetched[j].entities)
               IN \A k \in DOMAIN made :
                      \E n \in DOMAIN notices_for_db : notices_for_db[n] = made[k]
        /\ \A n \in DOMAIN notices_for_db : notices_for_db[n].dof_url \notin dof_skipped

\* a run returned after skipping its first candidate and fetching its second
C22_Witness ==
    /\ dof_pc = "returned"
    /\ Len(dof_candidates) = 2
    /\ dof_skipped = {dof_candidates[1].codigo}
    /\ Len(dof_fetched) = 1
    /\ notices_for_db # <<>>

(***************************************************************************)
(* C24                                                                     *)
(***************************************************************************)
MatchingRules(rules, t) == {i \in DOMAIN rules : ContainsWords(t, rules[i].keyword)}

LeastOf(S) == CHOOSE i \in S : \A j \in S : i <= j

\* C24: every record a run made carries the category of the matching rule
\* of least index for its lower-cased title (art_69b when no rule matches),
\* and the status that rule pins, else the status of the matching hint of
\* least index, else none; a title holding "69-b bis" is art_69_bis.
C24_ClassifierFirstRuleWins ==
    \A n \in DOMAIN notices_for_db :
        LET t == LowerWords(notices_for_db[n].motivo)
            M == MatchingRules(_ARTICLE_RULES, t)
            H == MatchingRules(_STATUS_HINTS, t)
            pinned == IF M = {} THEN Null ELSE _ARTICLE_RULES[LeastOf(M)].st
        IN /\ notices_for_db[n].article_type =
                  IF M = {} THEN "art_69b" ELSE _ARTICLE_RULES[LeastOf(M)].art
           /\ notices_for_db[n].status =
                  IF pinned # Null THEN pinned
                  ELSE IF H = {} THEN Null ELSE _STATUS_HINTS[LeastOf(H)].st
           /\ ContainsWords(t, <<"69-b", "bis">>) => notices_for_db[n].article_type = "art_69_bis"

\* a record of a title matching both "69-b bis" and "69-b", classified
\* art_69_bis with the hinted status, next to one classified by default
C24_Witness ==
    /\ \E n \in DOMAIN notices_for_db :
           /\ notices_for_db[n].motivo = <<"69-B", "BIS", "Definitivo">>
           /\ notices_for_db[n].article_type = "art_69_bis"
           /\ notices_for_db[n].status = "definitivo"
    /\ \E n \in DOMAIN notices_for_db :
           /\ notices_for_db[n].motivo = <<"SAT">>
           /\ notices_for_db[n].article_type = "art_69b"
           /\ notices_for_db[n].status = Null

(***************************************************************************)
(* C23                                                                     *)
(***************************************************************************)
ValidMembers(file) ==
    {i \in DOMAIN file.members : file.members[i].crc_ok /\ file.members[i].body = "rows"}

\* C23: a file the extractor cannot read (no download, bytes no reader
\* parses, a header with no row, an unsupported extension, a corrupt
\* archive, a table with no RFC column) yields no record, and an archive
\* yields the rows of each of its valid members whatever its other members
\* are.
C23_CorruptMemberSkipped ==
    /\ (sat_last.file.ext # "zip" /\ sat_last.file # [ext |-> "csv", body |-> "rows", members |-> <<>>])
           => sat_last.notices = <<>>
    /\ (sat_last.file.ext = "zip" /\ sat_last.file.body # "archive") => sat_last.notices = <<>>
    /\ (sat_last.file.ext = "zip" /\ sat_last.file.body = "archive")
           => Len(sat_last.notices) = Cardinality(ValidMembers(sat_last.file))

\* The part of C23 that holds: no record from a file that cannot be read,
\* and the rows of every valid member when every member passes its CRC check.
C23_MalformedYieldsNothing ==
    /\ (sat_last.file.ext # "zip" /\ sat_last.file # [ext |-> "csv", body |-> "rows", members |-> <<>>])
           => sat_last.notices = <<>>
    /\ (sat_last.file.ext = "zip" /\ sat_last.file.body # "archive") => sat_last.notices = <<>>
    /\ (/\ sat_last.file.ext = "zip" /\ sat_last.file.body = "archive"
        /\ \A i \in DOMAIN sat_last.file.members : sat_last.file.members[i].crc_ok)
           => Len(sat_last.notices) = Cardinality(ValidMembers(sat_last.file))

(***************************************************************************)
(* C30                                                                     *)
(***************************************************************************)
\* C30: a link text holding "69-b bis" and a keyword of a rule of the
\* general 69-B category is classified art_69_bis.
C30_SpecificBisWins ==
    LET t == LowerWords(sat_last.link_text)
    IN (/\ ContainsWords(t, <<"69-b", "bis">>)
        /\ \E i \in DOMAIN FILE_CLASSIFICATION :
               /\ FILE_CLASSIFICATION[i].art = "art_69b"
               /\ ContainsWords(t, FILE_CLASSIFICATION[i].keyword))
           => sat_last.class[1] = "art_69_bis"

\* The part of C30 that holds: a link text holding "69-b bis" and no keyword
\* of an earlier rule is classified art_69_bis.
C30_BisAlone ==
    LET t == LowerWords(sat_last.link_text)
    IN (/\ ContainsWords(t, <<"69-b", "bis">>)
        /\ \A i \in 1..7 : ~ContainsWords(t, FILE_CLASSIFICATION[i].keyword))
           => sat_last.class[1] = "art_69_bis"

(***************************************************************************)
(* C25                                                                     *)
(***************************************************************************)
NoTwoRowsOfOneArticle ==
    \A row1, row2 \in BagToSet(company_news) :
        (row1.url = row2.url /\ row1.rfc = row2.rfc) =>
            row1 = row2 /\ CopiesIn(row1, company_news) = 1

\* C25: the news table never holds two rows with the same url and the same
\* taxpayer id, and a run that fetched the articles of the run before it
\* adds no row.
C25_NoDuplicateNews == NoTwoRowsOfOneArticle /\ news_rerun # "inserted"

\* The part of C25 that holds: as long as no run began while another had
\* its session open, the table holds no two rows of one article and a
\* repeated run adds nothing.
C25_RunsInTurn == ~news_overlap => C25_NoDuplicateNews

====
